---------------------------- MODULE Spec2Model ----------------------------
(***************************************************************************)
(* Model of the analytics pass of dashboard_flytxt.py.                     *)
(*                                                                         *)
(* The script is re-executed from top to bottom on every widget change:    *)
(* each action below is one such execution (filters, headline metrics and  *)
(* the tabs).  Dates are encoded as the integer YYYYMMDD, whose order is   *)
(* the chronological order; NaT (the min/max of an empty column) is a      *)
(* separate value below every date for which every comparison is false.    *)
(* Floating-point quantities are kept as exact rationals <<num, den>>.     *)
(***************************************************************************)
EXTENDS Integers, Sequences, FiniteSets, TLC

VARIABLES
    df,                 \* the loaded table (load_data), a sequence of records
    columnas,           \* the columns of the table besides fecha and pais
    error,              \* the exception that ended the current pass, "" if none
    pais_seleccionado,  \* sidebar selectbox "País"
    mes_seleccionado,   \* sidebar selectbox "Mes"
    fecha_rango,        \* sidebar date_input: a tuple of 1 or 2 dates
    df_filtrado,        \* the filtered view of the current pass
    metricas,           \* headline metrics of the current pass
    tabs,               \* outcome of each of the six tabs
    registros_dia,      \* tab1 daily aggregate
    registros_por_fecha, \* tab4 daily aggregate
    registros_pais,     \* tab2 category aggregate, with its percentages
    registros_dia_completo, \* tab1 aggregate by date and day of week
    tamanos,            \* the s3_size column of the view, when the table has it
    tab1,               \* results of the tab1 analysis
    tab2,               \* results of the tab2 trend analysis
    tab4,               \* results of the tab4 analysis
    registros_hora,     \* tab5 hourly aggregate
    tab5,               \* results of the tab5 analysis
    tab6,               \* results of the tab6 size analysis
    matriz_pais_fecha,  \* tab6 aggregate by date and category
    correlaciones,      \* results of the tab6 correlation analysis
    pc                  \* "pendiente" while an analysis has its input only

vars == <<df, columnas, error, pais_seleccionado, mes_seleccionado, fecha_rango,
          df_filtrado, metricas, tabs, registros_dia, registros_por_fecha,
          registros_pais, registros_dia_completo, tamanos, tab1, tab2, tab4,
          registros_hora, tab5, tab6, matriz_pais_fecha, correlaciones, pc>>

-----------------------------------------------------------------------------
(* Bounds of the model *)

MaxRegistros == 3

\* category aggregates of the percentage analysis: up to MaxCategorias
\* categories, each with one of the counts of Conteos
MaxCategorias == 23

Conteos == {1, 2, 779}

\* daily aggregates of the tab1 analysis (see the families below)
MaxDiasPatron == 7

MaxDiasTendencia == 4

MaxDiasMovil == 8

MaxDiasExtra == 7

MaxTamanos == 4

MaxDiasAnomalia == 12

MaxDiasExtremo == 10

MaxDiasPico == 3

MaxDiasDobles == 3

MaxHoras == 5

PaisesSeq == <<"gt", "sv">>

\* 30 Sep 2024, 1 Oct 2024 and 1 Sep 2025: two months, and one month in two years
FechasSeq == <<20240930, 20241001, 20250901>>

EstadosSeq == <<"Success", "Failed">>

Range(s) == {s[i] : i \in DOMAIN s}

Paises == Range(PaisesSeq)

Fechas == Range(FechasSeq)

Estados == Range(EstadosSeq)

NaT == 0

Todos == "Todos"

\* str.upper() of the category codes
Upper(s) ==
    CASE s = "gt" -> "GT" [] s = "hn" -> "HN" [] s = "sv" -> "SV" [] OTHER -> s

\* the columns a consolidated file can have besides fecha and pais
TodasLasColumnas == {"mes", "status", "hora", "dia_semana", "s3_size", "local_size"}

\* the columns of the tables of the filter pass
ColumnasBase == {"mes", "status"}

dias_orden ==
    <<"Monday", "Tuesday", "Wednesday", "Thursday", "Friday", "Saturday", "Sunday">>

\* the calendar from Sunday 1 Sep 2024 (day 0) to 31 Oct 2024 (day 60)
FechaDeDia(k) == IF k < 30 THEN 20240901 + k ELSE 20241001 + (k - 30)

DiaSemanaDeDia(k) == dias_orden[((k + 6) % 7) + 1]

\* groupby(['fecha', 'dia_semana']).size() of a view with data on the days
\* dias[1..n] and conteo[i] records on day dias[i]
Completo(dias, conteo) ==
    [i \in DOMAIN conteo |->
        [fecha |-> FechaDeDia(dias[i]), dia_semana |-> DiaSemanaDeDia(dias[i]),
         registros |-> conteo[i]]]

\* days from 1 Sep 2024 (September and October 2024, September 2025)
DiaDeFecha(f) ==
    IF f < 20241001 THEN f - 20240901
    ELSE IF f < 20250101 THEN f - 20241001 + 30
    ELSE f - 20250901 + 365

\* dt.day_name() of the dates of the model (1 Sep 2025 is a Monday)
DiaSemanaDeFecha(f) ==
    IF f = 20250901 THEN "Monday" ELSE DiaSemanaDeDia(DiaDeFecha(f))

\* sorted() on the category codes of the model
OrdenPaises == <<"gt", "hn", "sv">>

-----------------------------------------------------------------------------
(* Generic helpers *)

Min2(a, b) == IF a <= b THEN a ELSE b

Max2(a, b) == IF a >= b THEN a ELSE b

RECURSIVE SumSeq(_)
SumSeq(s) == IF s = <<>> THEN 0 ELSE Head(s) + SumSeq(Tail(s))

\* the order of the keys of a column: dates by time, country codes by
\* alphabet (PaisesSeq lists them alphabetically)
Posicion(s, v) == CHOOSE i \in DOMAIN s : s[i] = v

MenorOIgual(c, x, y) ==
    IF c = "pais" THEN Posicion(OrdenPaises, x) <= Posicion(OrdenPaises, y) ELSE x <= y

\* ascending sequence of the values of a set of keys of column c
RECURSIVE SortedSeq(_, _)
SortedSeq(S, c) ==
    IF S = {} THEN <<>>
    ELSE LET m == CHOOSE x \in S : \A y \in S : MenorOIgual(c, x, y)
         IN  <<m>> \o SortedSeq(S \ {m}, c)

Column(t, c) == [i \in DOMAIN t |-> t[i][c]]

Unique(t, c) == {t[i][c] : i \in DOMAIN t}

-----------------------------------------------------------------------------
(* load_data: month column recomputed from the date, as a 2-character text *)

\* str.zfill(2) on the text of a number: texts shorter than 2 characters get
\* a leading "0", longer ones are returned as they are
ZFill2(s) ==
    CASE s = "1" -> "01" [] s = "2" -> "02" [] s = "3" -> "03"
      [] s = "4" -> "04" [] s = "5" -> "05" [] s = "6" -> "06"
      [] s = "7" -> "07" [] s = "8" -> "08" [] s = "9" -> "09"
      [] OTHER -> s

\* astype(str) of a month number 1..12
MonthStr(m) ==
    <<"1", "2", "3", "4", "5", "6", "7", "8", "9", "10", "11", "12">>[m]

\* fecha.dt.month
MonthOf(f) == (f \div 100) % 100

mes_calculado(f) == ZFill2(MonthStr(MonthOf(f)))

load_data(raw) ==
    [i \in DOMAIN raw |->
        [pais |-> raw[i].pais, fecha |-> raw[i].fecha,
         status |-> raw[i].status, mes |-> mes_calculado(raw[i].fecha)]]

\* The rows a consolidated file can hold, in the order the file lists them
\* (by date, then country, then status); a status other than Success is
\* varied on the first date only: the status enters the success rate alone
RawRecords ==
    SelectSeq(
        [k \in 1..(Len(FechasSeq) * Len(PaisesSeq) * Len(EstadosSeq)) |->
            [fecha |-> FechasSeq[((k - 1) \div (Len(PaisesSeq) * Len(EstadosSeq))) + 1],
             pais |-> PaisesSeq[(((k - 1) \div Len(EstadosSeq)) % Len(PaisesSeq)) + 1],
             status |-> EstadosSeq[((k - 1) % Len(EstadosSeq)) + 1]]],
        LAMBDA r : r.status = EstadosSeq[1] \/ r.fecha = FechasSeq[1])

\* The input files of the model: up to MaxRegistros rows, enumerated up to the
\* order of the rows (no analysis depends on it)
RawTables ==
    UNION {{[i \in 1..n |-> RawRecords[f[i]]] :
                f \in {g \in [1..n -> DOMAIN RawRecords] :
                           \A i \in 1..(n - 1) : g[i] <= g[i + 1]}} :
           n \in 1..MaxRegistros}

-----------------------------------------------------------------------------
(* Sidebar: column normalisation and filter options *)

\* lines 78-81: mes -> astype(str).str.zfill(2), pais -> astype(str)
NormalizaColumnas(t) ==
    [i \in DOMAIN t |-> [t[i] EXCEPT !.mes = ZFill2(t[i].mes)]]

paises_disponibles(t) == {Todos} \cup Unique(t, "pais")

meses_disponibles(t) == {Todos} \cup Unique(t, "mes")

\* line 102: the filters start from a copy of the loaded table
BaseDelFiltro_previa(t, previa) == previa

BaseDelFiltro(t, previa) == t

FiltroPais(t, p) ==
    IF p # Todos THEN SelectSeq(t, LAMBDA r : r.pais = p) ELSE t

FiltroMes(t, m) ==
    IF m # Todos THEN SelectSeq(t, LAMBDA r : r.mes = m) ELSE t

\* the view before the date filter: what fecha_min / fecha_max are taken from
PreVista(t, previa, p, m) == FiltroMes(FiltroPais(BaseDelFiltro(t, previa), p), m)

fecha_min(t) ==
    IF t = <<>> THEN NaT
    ELSE CHOOSE x \in Unique(t, "fecha") : \A y \in Unique(t, "fecha") : x <= y

fecha_max(t) ==
    IF t = <<>> THEN NaT
    ELSE CHOOSE x \in Unique(t, "fecha") : \A y \in Unique(t, "fecha") : x >= y

\* Timestamp comparisons; any comparison with NaT is false
Desde_excl(f, a) == f # NaT /\ a # NaT /\ f > a

Desde(f, a) == f # NaT /\ a # NaT /\ f >= a

Hasta(f, b) == f # NaT /\ b # NaT /\ f <= b

\* lines 129-133
FiltroFecha_inicio(t, rango) ==
    IF Len(rango) = 2
    THEN SelectSeq(t, LAMBDA r : Desde(r.fecha, rango[1]) /\ Hasta(r.fecha, rango[2]))
    ELSE SelectSeq(t, LAMBDA r : Desde(r.fecha, rango[1]))

FiltroFecha(t, rango) ==
    IF Len(rango) = 2
    THEN SelectSeq(t, LAMBDA r : Desde(r.fecha, rango[1]) /\ Hasta(r.fecha, rango[2]))
    ELSE t

\* what the date_input widget can return given value/min_value/max_value:
\* a complete range inside [min, max], or only its start while the user is
\* still picking the end
RangosPosibles(t) ==
    IF t = <<>> THEN {<<NaT, NaT>>}
    ELSE LET dias == {d \in Fechas : fecha_min(t) <= d /\ d <= fecha_max(t)}
         IN  {r \in dias \X dias : r[1] <= r[2]} \cup {<<a>> : a \in dias}

\* the widget after another widget changed: it shows its default (the whole
\* span of the new pre-view) or keeps the value it had if that is still valid
RangosTrasCambio(t, rango) ==
    {<<fecha_min(t), fecha_max(t)>>} \cup ({rango} \cap RangosPosibles(t))

-----------------------------------------------------------------------------
(* Aggregation *)

\* groupby(col).size().reset_index(name='registros'): one row per key, keys
\* sorted ascending, the number of rows carrying the key
GroupBySize_nunique(t, c) ==
    LET keys == SortedSeq(Unique(t, c), c)
    IN  [k \in DOMAIN keys |->
            (c :> keys[k]) @@
            ("registros" :>
                Cardinality({t[i].pais : i \in {j \in DOMAIN t : t[j][c] = keys[k]}}))]

GroupBySize(t, c) ==
    LET keys == SortedSeq(Unique(t, c), c)
    IN  [k \in DOMAIN keys |->
            (c :> keys[k]) @@
            ("registros" :> Cardinality({i \in DOMAIN t : t[i][c] = keys[k]}))]

\* sort_values('fecha') of an aggregate
RECURSIVE SortByFecha(_)
SortByFecha(a) ==
    IF a = <<>> THEN <<>>
    ELSE LET m == CHOOSE i \in DOMAIN a : \A j \in DOMAIN a : a[i].fecha <= a[j].fecha
         IN  <<a[m]>> \o SortByFecha(SubSeq(a, 1, m - 1) \o SubSeq(a, m + 1, Len(a)))

-----------------------------------------------------------------------------
(* Tab2: share of each category, lines 735-737 *)

\* round(num / den, 0) to the nearest integer, ties to the even one (numpy)
RoundHalfEven_trunc(num, den) == num \div den

RoundHalfEven(num, den) ==
    LET q == num \div den
        r == num % den
    IN  IF 2 * r > den THEN q + 1
        ELSE IF 2 * r < den THEN q
        ELSE IF q % 2 = 0 THEN q ELSE q + 1

\* (registros / registros.sum() * 100).round(2), kept in hundredths of a
\* percent: 3333 is 33.33
Porcentaje(registros, total) == RoundHalfEven(registros * 100 * 100, total)

ConPorcentaje(a) ==
    LET total == SumSeq(Column(a, "registros"))
    IN  [i \in DOMAIN a |->
            a[i] @@ ("porcentaje" :> Porcentaje(a[i].registros, total))]

\* sort_values('registros', ascending=False); equal counts keep their order
RECURSIVE SortByRegistrosDesc(_)
SortByRegistrosDesc(a) ==
    IF a = <<>> THEN <<>>
    ELSE LET m == CHOOSE i \in DOMAIN a :
                      /\ \A j \in DOMAIN a : a[i].registros >= a[j].registros
                      /\ \A j \in 1..(i - 1) : a[j].registros < a[i].registros
         IN  <<a[m]>> \o SortByRegistrosDesc(SubSeq(a, 1, m - 1) \o SubSeq(a, m + 1, Len(a)))

Tab2RegistrosPais(t) ==
    IF Len(t) = 0 THEN <<>>
    ELSE SortByRegistrosDesc(ConPorcentaje(GroupBySize(t, "pais")))

-----------------------------------------------------------------------------
(* Headline metrics, lines 135-163 *)

\* the characters of the status values of the model
Letras(s) ==
    CASE s = "Success" -> <<"S", "u", "c", "c", "e", "s", "s">>
      [] s = "SUCCESS" -> <<"S", "U", "C", "C", "E", "S", "S">>
      [] s = "Upload success" ->
             <<"U", "p", "l", "o", "a", "d", " ", "s", "u", "c", "c", "e", "s", "s">>
      [] s = "Succes" -> <<"S", "u", "c", "c", "e", "s">>
      [] s = "Failed" -> <<"F", "a", "i", "l", "e", "d">>
      [] OTHER -> <<>>

\* case=False: both sides are compared in lower case
Minusculas(x) ==
    [i \in DOMAIN x |->
        CASE x[i] = "S" -> "s" [] x[i] = "U" -> "u" [] x[i] = "C" -> "c"
          [] x[i] = "E" -> "e" [] x[i] = "F" -> "f" [] OTHER -> x[i]]

\* re.search of a literal: the literal occurs somewhere in the text
Contiene(x, sub) ==
    \E i \in 1..(Len(x) - Len(sub) + 1) : SubSeq(x, i, i + Len(sub) - 1) = sub

\* str.contains('Success|success|SUCCESS', case=False, na=False)
ContieneSuccess_exacto(s) == Contiene(Letras(s), Letras("Success"))

ContieneSuccess(s) ==
    \E alt \in {"Success", "SUCCESS"} :
        Contiene(Minusculas(Letras(s)), Minusculas(Letras(alt)))

\* tagged values: a number num/den, the square root of num/den ("raiz"), or
\* "N/A", "nan", "inf"
Valor(tipo, num, den) == [tipo |-> tipo, num |-> num, den |-> den]

NA == Valor("N/A", 0, 1)

\* a / b as the code's arithmetic gives it: a rational, or nan / inf
Division(a, b) ==
    IF b # 0 THEN Valor("num", a, b)
    ELSE IF a = 0 THEN Valor("nan", 0, 1) ELSE Valor("inf", 0, 1)

tasa_exito_sin_guarda(t) ==
    LET registros_exitosos == Cardinality({i \in DOMAIN t : ContieneSuccess(t[i].status)})
    IN  Division(registros_exitosos * 100, Len(t))

tasa_exito(t) ==
    IF Len(t) > 0
    THEN LET registros_exitosos ==
                 Cardinality({i \in DOMAIN t : ContieneSuccess(t[i].status)})
         IN  Division(registros_exitosos * 100, Len(t))
    ELSE NA

Numero(n) == Valor("num", n, 1)

\* line 157: 'status' in df_filtrado.columns and len(df_filtrado) > 0
Metricas(t, cols) ==
    [total |-> Numero(Len(t)),
     paises_unicos |-> Numero(Cardinality(Unique(t, "pais"))),
     dias_unicos |-> Numero(Cardinality(Unique(t, "fecha"))),
     tasa_exito |-> IF "status" \in cols THEN tasa_exito(t) ELSE NA]

\* nothing is shown when the pass ends before the metrics
SinMetricas ==
    [total |-> NA, paises_unicos |-> NA, dias_unicos |-> NA, tasa_exito |-> NA]

-----------------------------------------------------------------------------
(* The six tabs: each one starts with the empty-view guard *)

TabEstado(t) == IF Len(t) = 0 THEN "sin_datos" ELSE "calculado"

\* tab3 is the day-of-week tab (line 933) and tab5 the hour tab (line 1332)
Tabs(t, cols) ==
    [n \in 1..6 |->
        IF Len(t) > 0 /\ n = 3 /\ "dia_semana" \notin cols THEN "omitido"
        ELSE IF Len(t) > 0 /\ n = 5 /\ "hora" \notin cols THEN "omitido"
        ELSE TabEstado(t)]

TabsSinEjecutar == [n \in 1..6 |-> "error"]

Tab1RegistrosDia(t) == IF Len(t) = 0 THEN <<>> ELSE GroupBySize(t, "fecha")

Tab4RegistrosPorFecha(t) ==
    IF Len(t) = 0 THEN <<>> ELSE SortByFecha(GroupBySize(t, "fecha"))

-----------------------------------------------------------------------------
(* Tab1: statistics of the daily aggregate.  S is the sum of the counts,      *)
(* n their number: the mean is S / n and comparisons against it are made on   *)
(* integers by clearing the denominators.                                     *)

Registros(a) == Column(a, "registros")

Suma(a) == SumSeq(Registros(a))

SumaCuadrados(a) == SumSeq([i \in DOMAIN a |-> a[i].registros * a[i].registros])

\* line 250: rolling(window, min_periods).mean(), a running sum to which each
\* point is added and from which the point leaving the window is removed
RECURSIVE RollingAcc_sin_quitar(_, _, _)
RollingAcc_sin_quitar(x, window, i) ==
    IF i = 0 THEN <<0, 0>>
    ELSE LET p == RollingAcc_sin_quitar(x, window, i - 1)
         IN  <<p[1] + x[i], p[2] + 1>>

RECURSIVE RollingAcc(_, _, _)
RollingAcc(x, window, i) ==
    IF i = 0 THEN <<0, 0>>
    ELSE LET p == RollingAcc(x, window, i - 1)
             q == <<p[1] + x[i], p[2] + 1>>
         IN  IF i > window THEN <<q[1] - x[i - window], q[2] - 1>> ELSE q

RollingMean(x, window, min_periods) ==
    [i \in DOMAIN x |->
        LET acc == RollingAcc(x, window, i)
        IN  IF acc[2] >= min_periods THEN Valor("num", acc[1], acc[2])
            ELSE Valor("nan", 0, 1)]

promedio_movil_7d(a) == RollingMean(Registros(a), 7, 1)

\* lines 477-480
cambio_porcentual(a) ==
    LET primer_valor == a[1].registros
        ultimo_valor == a[Len(a)].registros
        cambio_absoluto == ultimo_valor - primer_valor
    IN  IF primer_valor > 0 THEN Division(cambio_absoluto * 100, primer_valor)
        ELSE Numero(0)

\* v > k for a value with a positive denominator
MayorQue_oigual(v, k) == v.num >= k * v.den

MayorQue(v, k) == v.num > k * v.den

MenorQue(v, k) == v.num < k * v.den

\* lines 485-502
Tendencia(c) ==
    IF MayorQue(c, 10) THEN "crecimiento"
    ELSE IF MenorQue(c, -10) THEN "descenso"
    ELSE "estable"

\* lines 549-552: registros > mean + 2*std or registros < mean - 2*std, with
\* std the sample standard deviation (n - 1), NaN for a single point.
\* |n*x - S| > 2*n*std  <=>  (n*x - S)^2 * (n - 1) > 4 * n * (n*Q - S^2)
FueraDeDosSigmas_una(a, x) ==
    LET n == Len(a)
        d == n * x - Suma(a)
    IN  /\ n >= 2
        /\ d * d * (n - 1) > n * (n * SumaCuadrados(a) - Suma(a) * Suma(a))

FueraDeDosSigmas_oigual(a, x) ==
    LET n == Len(a)
        d == n * x - Suma(a)
    IN  /\ n >= 2
        /\ d * d * (n - 1) >= 4 * n * (n * SumaCuadrados(a) - Suma(a) * Suma(a))

FueraDeDosSigmas(a, x) ==
    LET n == Len(a)
        d == n * x - Suma(a)
    IN  /\ n >= 2
        /\ d * d * (n - 1) > 4 * n * (n * SumaCuadrados(a) - Suma(a) * Suma(a))

anomalias(a) == SelectSeq(a, LAMBDA r : FueraDeDosSigmas(a, r.registros))

RECURSIVE MCD(_, _)
MCD(x, y) == IF y = 0 THEN x ELSE MCD(y, x % y)

\* lines 481-482: std_dev / promedio_registros * 100.  The value kept is the
\* quotient num / den, in lowest terms, of the square of std_dev / promedio
\* (tipo "raiz"); nan when the series has one point, whose sample standard
\* deviation is nan
coef_variacion_sin_guarda(a) ==
    LET n == Len(a)
        num == n * (n * SumaCuadrados(a) - Suma(a) * Suma(a))
        den == (n - 1) * Suma(a) * Suma(a)
    IN  IF n < 2 THEN Valor("nan", 0, 1)
        ELSE Valor("raiz", num \div MCD(num, den), den \div MCD(num, den))

coef_variacion(a) == IF Suma(a) > 0 THEN coef_variacion_sin_guarda(a) ELSE Numero(0)

\* 100 * v < 100 * p / q and 100 * v > 100 * p / q for a square root v and
\* p / q >= 0; false for nan
RaizMenorQue(v, p, q) == v.tipo = "raiz" /\ q * q * v.num < p * p * v.den

RaizMayorQue(v, p, q) == v.tipo = "raiz" /\ q * q * v.num > p * p * v.den

\* lines 511-527: coef_variacion < 15
Estabilidad(c) == IF RaizMenorQue(c, 3, 20) THEN "buena" ELSE "variable"

\* line 599: registros > promedio_registros
EsPico(a, x) == Len(a) * x > Suma(a)

\* lines 600, 606: desviacion = |registros - promedio| / std_dev > 3
SeveridadAlta_dos(a, x) ==
    LET n == Len(a)
        d == n * x - Suma(a)
    IN  d * d * (n - 1) > 4 * n * (n * SumaCuadrados(a) - Suma(a) * Suma(a))

SeveridadAlta(a, x) ==
    LET n == Len(a)
        d == n * x - Suma(a)
    IN  d * d * (n - 1) > 9 * n * (n * SumaCuadrados(a) - Suma(a) * Suma(a))

\* lines 596-607: one entry per anomalous day
detalles_anomalias(a) ==
    LET an == anomalias(a)
    IN  [k \in DOMAIN an |->
            [fecha |-> an[k].fecha, registros |-> an[k].registros,
             tipo |-> IF EsPico(a, an[k].registros) THEN "PICO" ELSE "CAIDA",
             severidad |-> IF SeveridadAlta(a, an[k].registros) THEN "alta"
                           ELSE "moderada"]]

\* lines 615-616: registros < promedio * 0.1
dias_problema_caida(a) == SelectSeq(a, LAMBDA r : 100 * Len(a) * r.registros < 85 * Suma(a))

dias_problema(a) == SelectSeq(a, LAMBDA r : 10 * Len(a) * r.registros < Suma(a))

-----------------------------------------------------------------------------
(* Tab1: day-of-week drop pattern, lines 282-345 *)

\* line 293: registros < promedio * 0.85
BajoUmbralCaida_todos(a, x) == 100 * Len(a) * x <= 100 * Suma(a)

\* floor(log2(x)), x >= 1
RECURSIVE Log2(_)
Log2(x) == IF x < 2 THEN 0 ELSE 1 + Log2(x \div 2)

\* promedio_temp * 0.85 is a product of doubles.  The stored factor is
\* 0.85 - 0.2 * 2^-53 and the stored mean is S / n rounded to 53 bits, so the
\* product can round to the double just above x although 0.85 * S / n = x.
\* With mean = 20 * x / 17 in [2^e, 2^(e + 1)), x in [2^k, 2^(k + 1)) and
\* d / 17 the rounding of the 53-bit mean (in units of its last bit), the
\* product is above the midpoint of x and the double after it exactly when
\* 170 * d * 2^e - 400 * x > 1700 * 2^k.
ProductoSobreElUmbral(x) ==
    LET k == Log2(x)
        e == IF 20 * x < 17 * 2^(k + 1) THEN k ELSE k + 1
        \* 2^8 = 1 (mod 17)
        resto == (20 * x * 2^((52 - e) % 8)) % 17
        d == IF resto <= 8 THEN -resto ELSE 17 - resto
    IN  170 * d * 2^e - 400 * x > 1700 * 2^k

\* off the threshold the rounding (relative error 2^-52) cannot change the
\* comparison
BajoUmbralCaida(a, x) ==
    IF 100 * Len(a) * x # 85 * Suma(a) THEN 100 * Len(a) * x < 85 * Suma(a)
    ELSE ProductoSobreElUmbral(x)

dias_con_caida(a) == SelectSeq(a, LAMBDA r : BajoUmbralCaida(a, r.registros))

\* a row for every record of the date
RECURSIVE MergeLeft_registros(_, _)
MergeLeft_registros(left, right) ==
    IF left = <<>> THEN <<>>
    ELSE LET l == Head(left)
             m == SelectSeq(right, LAMBDA r : r.fecha = l.fecha)
         IN  [i \in 1..l.registros |->
                 [fecha |-> l.fecha, registros |-> l.registros,
                  dia_semana |-> IF m = <<>> THEN "NaN"
                                 ELSE IF i <= m[1].registros THEN m[1].dia_semana
                                 ELSE m[Len(m)].dia_semana]]
                 \o MergeLeft_registros(Tail(left), right)

\* left.merge(right[['fecha', 'dia_semana']], on='fecha', how='left')
RECURSIVE MergeLeft(_, _)
MergeLeft(left, right) ==
    IF left = <<>> THEN <<>>
    ELSE LET l == Head(left)
             m == SelectSeq(right, LAMBDA r : r.fecha = l.fecha)
             filas == IF m = <<>>
                      THEN <<[fecha |-> l.fecha, registros |-> l.registros,
                              dia_semana |-> "NaN"]>>
                      ELSE [i \in DOMAIN m |->
                               [fecha |-> l.fecha, registros |-> l.registros,
                                dia_semana |-> m[i].dia_semana]]
         IN  filas \o MergeLeft(Tail(left), right)

\* value_counts(): occurrences of each value, NaN left out
Cuenta(t, c, v) == Cardinality({i \in DOMAIN t : t[i][c] = v})

ValoresContados(t, c) == Unique(t, c) \ {"NaN"}

\* the values value_counts() can list first: those with the largest count
\* (which of several equally frequent ones comes first is not fixed)
Primeros(t, c) ==
    {v \in ValoresContados(t, c) :
        \A w \in ValoresContados(t, c) : Cuenta(t, c, v) >= Cuenta(t, c, w)}

\* line 317
EsConsistente(cantidad, total) == cantidad * 100 >= 50 * total

SinPatron(estado) ==
    [estado |-> estado, dia |-> "", cantidad |-> 0, total |-> 0,
     impacto |-> NA]

\* lines 308-345 for the day value_counts() lists first
PatronCaidaDe(a, completo, caidas, dia) ==
    LET cantidad_caidas == Cuenta(caidas, "dia_semana", dia)
        total_dias_tipo == Cuenta(completo, "dia_semana", dia)
        del_dia == SelectSeq(caidas, LAMBDA r : r.dia_semana = dia)
        \* impacto = (promedio_temp - promedio_caidas) / promedio_temp * 100
        impacto == Division((Suma(a) * Len(del_dia) - Suma(del_dia) * Len(a)) * 100,
                            Suma(a) * Len(del_dia))
    IN  IF total_dias_tipo > 0 /\ EsConsistente(cantidad_caidas, total_dias_tipo)
        THEN [estado |-> "reportado", dia |-> dia, cantidad |-> cantidad_caidas,
              total |-> total_dias_tipo, impacto |-> impacto]
        ELSE [estado |-> "no_consistente", dia |-> dia, cantidad |-> cantidad_caidas,
              total |-> total_dias_tipo, impacto |-> NA]

\* the outcomes of the drop analysis
PatronesCaida(a, completo, tiene_dia_semana) ==
    IF ~tiene_dia_semana THEN {SinPatron("omitido")}
    ELSE IF dias_con_caida(a) = <<>> THEN {SinPatron("sin_caidas")}
    ELSE LET caidas == MergeLeft(dias_con_caida(a), completo)
         IN  IF Primeros(caidas, "dia_semana") = {} THEN {SinPatron("sin_caidas")}
             ELSE {PatronCaidaDe(a, completo, caidas, dia) :
                      dia \in Primeros(caidas, "dia_semana")}

-----------------------------------------------------------------------------
(* Tab1: day-of-week peak pattern, lines 382-432 *)

\* promedio_temp * 1.15 is a product of doubles.  The stored factor is
\* 1.15 - 0.4 * 2^-52 and the stored mean is S / n rounded to 53 bits, so the
\* product can round to the double just below x although 1.15 * S / n = x.
\* With mean = 20 * x / 23 in [2^e, 2^(e + 1)), x in [2^k, 2^(k + 1)) and
\* d / 23 the rounding of the 53-bit mean (in units of its last bit), the
\* product is below the midpoint of x and the double before it exactly when
\* 800 * x - 115 * d * 2^e > 1150 * 2^k (575 when x = 2^k); on a tie the
\* product rounds to x, whose last bit is 0.  Both sides are doubled below,
\* e being -1 when x = 1.
ProductoBajoElUmbral(x) ==
    LET k == Log2(x)
        e == IF 20 * x >= 23 * 2^k THEN k ELSE k - 1
        \* 2^11 = 1 (mod 23)
        resto == (20 * x * 2^((52 - e) % 11)) % 23
        d == IF resto <= 11 THEN -resto ELSE 23 - resto
        izq == 1600 * x - 115 * d * 2^(e + 1)
        der == IF x = 2^k THEN 1150 * 2^k ELSE 2300 * 2^k
    IN  izq > der \/ (izq = der /\ d > 0)

\* line 383: registros > promedio * 1.15.  Off the threshold the rounding
\* (relative error 2^-52) cannot change the comparison
SobreUmbralPico(a, x) ==
    IF 100 * Len(a) * x # 115 * Suma(a) THEN 100 * Len(a) * x > 115 * Suma(a)
    ELSE ProductoBajoElUmbral(x)

dias_con_pico(a) == SelectSeq(a, LAMBDA r : SobreUmbralPico(a, r.registros))

\* lines 394-432 for the day value_counts() lists first
PatronPicoDe(a, completo, picos, dia) ==
    LET cantidad_picos == Cuenta(picos, "dia_semana", dia)
        total_dias_tipo_pico == Cuenta(completo, "dia_semana", dia)
        del_dia == SelectSeq(picos, LAMBDA r : r.dia_semana = dia)
        \* incremento = (promedio_picos - promedio_temp) / promedio_temp * 100
        incremento == Division((Suma(del_dia) * Len(a) - Suma(a) * Len(del_dia)) * 100,
                               Suma(a) * Len(del_dia))
    IN  IF total_dias_tipo_pico > 0 /\ EsConsistente(cantidad_picos, total_dias_tipo_pico)
        THEN [estado |-> "reportado", dia |-> dia, cantidad |-> cantidad_picos,
              total |-> total_dias_tipo_pico, impacto |-> incremento]
        ELSE [estado |-> "no_consistente", dia |-> dia, cantidad |-> cantidad_picos,
              total |-> total_dias_tipo_pico, impacto |-> NA]

\* the outcomes of the peak analysis
PatronesPico(a, completo, tiene_dia_semana) ==
    IF ~tiene_dia_semana THEN {SinPatron("omitido")}
    ELSE IF dias_con_pico(a) = <<>> THEN {SinPatron("sin_picos")}
    ELSE LET picos == MergeLeft(dias_con_pico(a), completo)
         IN  IF Primeros(picos, "dia_semana") = {} THEN {SinPatron("sin_picos")}
             ELSE {PatronPicoDe(a, completo, picos, dia) :
                      dia \in Primeros(picos, "dia_semana")}

-----------------------------------------------------------------------------
(* Tab1: availability, lines 630-649 *)

\* fecha_min and fecha_max of the view are the first and the last date of
\* its daily aggregate
Uptime_sin_extremo(a) ==
    LET dias_con_datos == Len(a)
        dias_esperados == DiaDeFecha(a[Len(a)].fecha) - DiaDeFecha(a[1].fecha)
        uptime == IF dias_esperados > 0 THEN Division(dias_con_datos * 100, dias_esperados)
                  ELSE Numero(100)
    IN  [dias_con_datos |-> dias_con_datos, dias_esperados |-> dias_esperados,
         uptime |-> uptime,
         dias_faltantes |-> IF MenorQue(uptime, 100)
                            THEN Numero(dias_esperados - dias_con_datos) ELSE NA]

Uptime(a) ==
    LET dias_con_datos == Len(a)
        dias_esperados == DiaDeFecha(a[Len(a)].fecha) - DiaDeFecha(a[1].fecha) + 1
        uptime == IF dias_esperados > 0 THEN Division(dias_con_datos * 100, dias_esperados)
                  ELSE Numero(100)
    IN  [dias_con_datos |-> dias_con_datos, dias_esperados |-> dias_esperados,
         uptime |-> uptime,
         \* line 647: the warning, shown when uptime < 100
         dias_faltantes |-> IF MenorQue(uptime, 100)
                            THEN Numero(dias_esperados - dias_con_datos) ELSE NA]

-----------------------------------------------------------------------------
(* Tab1: the results *)

Tab1Analisis(a, caida, pico) ==
    [promedio_movil_7d |-> promedio_movil_7d(a),
     cambio_porcentual |-> cambio_porcentual(a),
     tendencia |-> Tendencia(cambio_porcentual(a)),
     coef_variacion |-> coef_variacion(a),
     estabilidad |-> Estabilidad(coef_variacion(a)),
     anomalias |-> anomalias(a),
     detalles |-> detalles_anomalias(a),
     dias_problema |-> dias_problema(a),
     uptime |-> Uptime(a),
     caida |-> caida,
     pico |-> pico]

Tab1SinDatos ==
    [promedio_movil_7d |-> <<>>, cambio_porcentual |-> NA, tendencia |-> "sin_datos",
     coef_variacion |-> NA, estabilidad |-> "sin_datos",
     anomalias |-> <<>>, detalles |-> <<>>, dias_problema |-> <<>>,
     uptime |-> [dias_con_datos |-> 0, dias_esperados |-> 0, uptime |-> NA,
                 dias_faltantes |-> NA],
     caida |-> SinPatron("sin_datos"),
     pico |-> SinPatron("sin_datos")]

-----------------------------------------------------------------------------
(* Tab2: trend of each category, lines 661-685 *)

\* datos_pais.groupby('fecha').size().sort_index() on the aggregate by date
\* and category of the view
registros_tiempo(m, pais) ==
    SortByFecha(SelectSeq(m, LAMBDA r : r.pais = pais))

\* lines 670-674: mean of the first max(1, n // 3) points against the mean of
\* the last max(1, n // 3)
cambio_segmentos(rt) ==
    LET n == Len(rt)
        k == Max2(1, n \div 3)
        inicio == SumSeq(Registros(SubSeq(rt, 1, k)))
        fin == SumSeq(Registros(SubSeq(rt, n - k + 1, n)))
    IN  IF inicio > 0 THEN Division((fin - inicio) * 100, inicio) ELSE Numero(0)

\* line 668
TienePuntosSuficientes_tres(rt) == Len(rt) >= 3

TienePuntosSuficientes(rt) == Len(rt) > 3

\* line 661
TieneFechasSuficientes(m) == Cardinality(Unique(m, "fecha")) > 7

\* lines 664-685: the categories in the order of the aggregate
tendencias_pais(m) ==
    LET ps == SortedSeq(Unique(m, "pais"), "pais")
        con == SelectSeq(ps, LAMBDA c : TienePuntosSuficientes(registros_tiempo(m, c)))
    IN  [k \in DOMAIN con |->
            [pais |-> Upper(con[k]),
             tendencia |-> cambio_segmentos(registros_tiempo(m, con[k])),
             puntos |-> Len(registros_tiempo(m, con[k]))]]

Tab2Tendencias(m) ==
    IF m = <<>> THEN [estado |-> "sin_datos", tendencias_pais |-> <<>>]
    ELSE IF TieneFechasSuficientes(m)
         THEN [estado |-> "calculado", tendencias_pais |-> tendencias_pais(m)]
         ELSE [estado |-> "omitido", tendencias_pais |-> <<>>]

-----------------------------------------------------------------------------
(* Tab4: variability and short-horizon forecast, lines 1192-1266 *)

\* line 1192
coef_variacion_fecha(a) == coef_variacion_sin_guarda(a)

\* line 1224: coef_variacion > 30
Variabilidad(c) == IF RaizMayorQue(c, 3, 10) THEN "alta" ELSE "baja"

\* line 1251
TieneDiasParaPronostico(a) == Len(a) >= 7

SinPronostico(estado) ==
    [estado |-> estado, tendencia_pct |-> NA, pronostico |-> NA]

\* lines 1256-1266 on the last 7 days: with A the sum of the first 3 of them,
\* B the sum of the last 4 and C the sum of the last 3,
\* tendencia_pct = (B/4 - A/3) / (A/3) * 100 and
\* pronostico = C/3 * (1 + tendencia_pct / 100) = C * B / (4 * A)
Pronostico_cuatro_y_tres(a) ==
    IF ~TieneDiasParaPronostico(a) THEN SinPronostico("omitido")
    ELSE LET ultimos_dias == SubSeq(a, Len(a) - 6, Len(a))
             A == SumSeq(Registros(SubSeq(ultimos_dias, 1, 4)))
             B == SumSeq(Registros(SubSeq(ultimos_dias, 5, 7)))
         IN  [estado |-> "calculado",
              tendencia_pct |-> Division((4 * B - 3 * A) * 100, 3 * A),
              pronostico |-> Division(B * 4 * B, 3 * 3 * A)]

Pronostico(a) ==
    IF ~TieneDiasParaPronostico(a) THEN SinPronostico("omitido")
    ELSE LET ultimos_dias == SubSeq(a, Len(a) - 6, Len(a))
         IN  IF Len(ultimos_dias) >= 3
             THEN LET mitad == Len(ultimos_dias) \div 2
                      A == SumSeq(Registros(SubSeq(ultimos_dias, 1, mitad)))
                      B == SumSeq(Registros(SubSeq(ultimos_dias, mitad + 1, 7)))
                      C == SumSeq(Registros(SubSeq(ultimos_dias, 5, 7)))
                  IN  IF A > 0
                      THEN [estado |-> "calculado",
                            tendencia_pct |-> Division((3 * B - 4 * A) * 100, 4 * A),
                            pronostico |-> Division(C * B, 4 * A)]
                      ELSE [estado |-> "calculado", tendencia_pct |-> Numero(0),
                            pronostico |-> Division(C, 3)]
             ELSE SinPronostico("omitido")

Tab4Analisis(a) ==
    IF a = <<>> THEN [coef_variacion |-> NA, variabilidad |-> "sin_datos",
                      pronostico |-> SinPronostico("sin_datos")]
    ELSE [coef_variacion |-> coef_variacion_fecha(a),
          variabilidad |-> Variabilidad(coef_variacion_fecha(a)),
          pronostico |-> Pronostico(a)]

-----------------------------------------------------------------------------
(* Tab6: size outliers by interquartile range, lines 1621-1628 *)

RECURSIVE SortInts(_)
SortInts(x) ==
    IF x = <<>> THEN <<>>
    ELSE LET m == CHOOSE i \in DOMAIN x : \A j \in DOMAIN x : x[i] <= x[j]
         IN  <<x[m]>> \o SortInts(SubSeq(x, 1, m - 1) \o SubSeq(x, m + 1, Len(x)))

\* 4 * quantile(k / 4), linear interpolation between the two nearest ranks
Cuantil4(x, k) ==
    LET o == SortInts(x)
        pos == k * (Len(x) - 1)
        lo == (pos \div 4) + 1
        hi == IF lo < Len(x) THEN lo + 1 ELSE lo
    IN  4 * o[lo] + (o[hi] - o[lo]) * (pos % 4)

\* 8 * limite_superior and 8 * limite_inferior
limite_superior8(x) ==
    2 * Cuantil4(x, 3) + 3 * (Cuantil4(x, 3) - Cuantil4(x, 1))

limite_inferior8(x) ==
    Max2(0, 2 * Cuantil4(x, 1) - 3 * (Cuantil4(x, 3) - Cuantil4(x, 1)))

anomalos_grandes_oigual(x) == SelectSeq(x, LAMBDA v : 8 * v >= limite_superior8(x))

anomalos_grandes(x) == SelectSeq(x, LAMBDA v : 8 * v > limite_superior8(x))

anomalos_pequenos(x) == SelectSeq(x, LAMBDA v : 8 * v < limite_inferior8(x))

Tab6Tamanos(tam) ==
    IF ~tam.presente THEN [estado |-> "omitido", grandes |-> <<>>, pequenos |-> <<>>]
    ELSE [estado |-> "calculado",
          grandes |-> anomalos_grandes(tam.s3_size),
          pequenos |-> anomalos_pequenos(tam.s3_size)]

SinTamanos == [presente |-> FALSE, s3_size |-> <<>>]

\* line 284 on a view whose column dia_semana is the day name of fecha
CompletoDeVista(t, cols) ==
    IF Len(t) = 0 \/ "dia_semana" \notin cols THEN <<>>
    ELSE LET a == GroupBySize(t, "fecha")
         IN  [i \in DOMAIN a |->
                 [fecha |-> a[i].fecha, dia_semana |-> DiaSemanaDeFecha(a[i].fecha),
                  registros |-> a[i].registros]]

\* the outcomes of tab1 on a view: one for each way value_counts can order
\* equally frequent days
Tab1DeVista(t, cols) ==
    IF Len(t) = 0 THEN {Tab1SinDatos}
    ELSE {Tab1Analisis(GroupBySize(t, "fecha"), caida, pico) :
             caida \in PatronesCaida(GroupBySize(t, "fecha"), CompletoDeVista(t, cols),
                                     "dia_semana" \in cols),
             pico \in PatronesPico(GroupBySize(t, "fecha"), CompletoDeVista(t, cols),
                                   "dia_semana" \in cols)}

\* line 1600; the size columns of the tables of the filter pass hold the
\* same size in every row
TamanosDeVista(t, cols) ==
    IF {"s3_size", "local_size"} \subseteq cols
    THEN [presente |-> TRUE, s3_size |-> [i \in DOMAIN t |-> 100]]
    ELSE SinTamanos

Tab6DeVista(t, tam) ==
    IF Len(t) = 0 THEN [estado |-> "sin_datos", grandes |-> <<>>, pequenos |-> <<>>]
    ELSE Tab6Tamanos(tam)

-----------------------------------------------------------------------------
(* Tab6: correlations between categories, lines 1661-1710 *)

\* groupby(['fecha', 'pais']).size().reset_index(name='registros')
MatrizPaisFecha(t) ==
    LET fs == SortedSeq(Unique(t, "fecha"), "fecha")
        cs == SortedSeq(Unique(t, "pais"), "pais")
        n(f, c) == Cardinality({i \in DOMAIN t : t[i].fecha = f /\ t[i].pais = c})
        fila(k) == [fecha |-> fs[((k - 1) \div Len(cs)) + 1],
                    pais |-> cs[((k - 1) % Len(cs)) + 1],
                    registros |-> n(fs[((k - 1) \div Len(cs)) + 1],
                                    cs[((k - 1) % Len(cs)) + 1])]
    IN  SelectSeq([k \in 1..(Len(fs) * Len(cs)) |-> fila(k)],
                  LAMBDA r : r.registros > 0)

\* the cell of a (fecha, pais) combination the aggregate does not have
fillna == 0

\* pivot(index='fecha', columns='pais', values='registros').fillna(0)
Pivot(m) ==
    LET fs == SortedSeq(Unique(m, "fecha"), "fecha")
        cs == SortedSeq(Unique(m, "pais"), "pais")
        celda(f, c) ==
            IF \E k \in DOMAIN m : m[k].fecha = f /\ m[k].pais = c
            THEN (CHOOSE r \in Range(m) : r.fecha = f /\ r.pais = c).registros
            ELSE fillna
    IN  [index |-> fs, columns |-> cs,
         values |-> [i \in DOMAIN fs |-> [j \in DOMAIN cs |-> celda(fs[i], cs[j])]]]

\* Pearson correlation of the columns a and b of a pivot, kept as the three
\* integers n*Sxy - Sx*Sy, n*Sxx - Sx^2 and n*Syy - Sy^2
Pearson_sin_centrar(pv, a, b) ==
    LET n == Len(pv.index)
        x == [i \in 1..n |-> pv.values[i][a]]
        y == [i \in 1..n |-> pv.values[i][b]]
        xy == [i \in 1..n |-> x[i] * y[i]]
    IN  [cov |-> n * SumSeq(xy),
         vx |-> n * SumSeq([i \in 1..n |-> x[i] * x[i]]),
         vy |-> n * SumSeq([i \in 1..n |-> y[i] * y[i]])]

Pearson(pv, a, b) ==
    LET n == Len(pv.index)
        x == [i \in 1..n |-> pv.values[i][a]]
        y == [i \in 1..n |-> pv.values[i][b]]
        xy == [i \in 1..n |-> x[i] * y[i]]
    IN  [cov |-> n * SumSeq(xy) - SumSeq(x) * SumSeq(y),
         vx |-> n * SumSeq([i \in 1..n |-> x[i] * x[i]]) - SumSeq(x) * SumSeq(x),
         vy |-> n * SumSeq([i \in 1..n |-> y[i] * y[i]]) - SumSeq(y) * SumSeq(y)]

\* the coefficient is nan when a column has no variance (or a single date)
CorrNan(c) == c.vx = 0 \/ c.vy = 0

\* corr_val < p / q for p < 0, and corr_val > p / q for p > 0; false for nan
CorrMenorQue_sin_signo(c, p, q) ==
    ~CorrNan(c) /\ q * q * c.cov * c.cov > p * p * c.vx * c.vy

CorrMenorQue(c, p, q) ==
    ~CorrNan(c) /\ c.cov < 0 /\ q * q * c.cov * c.cov > p * p * c.vx * c.vy

CorrMayorQue(c, p, q) ==
    ~CorrNan(c) /\ c.cov > 0 /\ q * q * c.cov * c.cov > p * p * c.vx * c.vy

\* the pairs (i, j), i < j, in the order the two nested loops visit them
ParesDeColumnas(k) ==
    LET todos == [q \in 1..(k * k) |-> <<((q - 1) \div k) + 1, ((q - 1) % k) + 1>>]
    IN  SelectSeq(todos, LAMBDA r : r[1] < r[2])

ParDe(pv, r) ==
    [pais1 |-> Upper(pv.columns[r[1]]), pais2 |-> Upper(pv.columns[r[2]]),
     correlacion |-> Pearson(pv, r[1], r[2])]

pares_negativos(pv) ==
    LET visitados == ParesDeColumnas(Len(pv.columns))
    IN  SelectSeq([q \in DOMAIN visitados |-> ParDe(pv, visitados[q])],
                  LAMBDA par : CorrMenorQue(par.correlacion, -3, 10))

pares_positivos(pv) ==
    LET visitados == ParesDeColumnas(Len(pv.columns))
    IN  SelectSeq([q \in DOMAIN visitados |-> ParDe(pv, visitados[q])],
                  LAMBDA par : CorrMayorQue(par.correlacion, 7, 10))

SinCorrelaciones(estado) ==
    [estado |-> estado, pares_negativos |-> <<>>, pares_positivos |-> <<>>,
     mensaje |-> "ninguno"]

\* lines 1661-1710 on the aggregate by date and category of a non-empty view
Tab6Correlaciones(m) ==
    IF Cardinality(Unique(m, "pais")) > 1 /\ Len(Pivot(m).columns) >= 2
    THEN LET pv == Pivot(m)
         IN  [estado |-> "calculado",
              pares_negativos |-> pares_negativos(pv),
              pares_positivos |-> pares_positivos(pv),
              mensaje |-> IF pares_negativos(pv) = <<>> /\ pares_positivos(pv) = <<>>
                          THEN "sin_correlaciones_fuertes" ELSE "pares"]
    ELSE SinCorrelaciones("omitido")

Tab6CorrelacionesDeVista(t) ==
    IF Len(t) = 0 THEN SinCorrelaciones("sin_datos")
    ELSE Tab6Correlaciones(MatrizPaisFecha(t))

Tab6MatrizDeVista(t) ==
    IF Len(t) = 0 \/ Cardinality(Unique(t, "pais")) <= 1 THEN <<>>
    ELSE MatrizPaisFecha(t)

-----------------------------------------------------------------------------
(* Tab5: business hours and maintenance windows, lines 1327-1436 *)

SumaHoras(h) == SumSeq(Registros(h))

\* line 1389: 8 <= hora <= 18
horario_laboral_manana(h) ==
    SumaHoras(SelectSeq(h, LAMBDA r : r.hora >= 8 /\ r.hora < 18))

horario_laboral(h) ==
    SumaHoras(SelectSeq(h, LAMBDA r : r.hora >= 8 /\ r.hora <= 18))

\* line 1390: hora < 8 or hora > 18
horario_no_laboral(h) ==
    SumaHoras(SelectSeq(h, LAMBDA r : r.hora < 8 \/ r.hora > 18))

\* lines 1426-1427: registros < promedio_hora * 0.5, rows in hour order
ventanas_oportunidad_oigual(h) ==
    SelectSeq(h, LAMBDA r : 2 * Len(h) * r.registros <= SumaHoras(h))

ventanas_oportunidad(h) ==
    SelectSeq(h, LAMBDA r : 2 * Len(h) * r.registros < SumaHoras(h))

Tab5Sin(estado) ==
    [estado |-> estado, horario_laboral |-> 0, horario_no_laboral |-> 0,
     pct_laboral |-> NA, patron_horario |-> "", ventanas_oportunidad |-> <<>>]

\* lines 1389-1399 and 1426-1427 on the hourly aggregate; without a hora
\* column the tab shows nothing
Tab5Analisis(h) ==
    IF h = <<>> THEN Tab5Sin("omitido")
    ELSE LET pct_laboral == Division(horario_laboral(h) * 100,
                                     horario_laboral(h) + horario_no_laboral(h))
         IN  [estado |-> "calculado",
              horario_laboral |-> horario_laboral(h),
              horario_no_laboral |-> horario_no_laboral(h),
              pct_laboral |-> pct_laboral,
              patron_horario |->
                  IF MayorQue(pct_laboral, 70) THEN "Principalmente en horario laboral"
                  ELSE IF MayorQue(pct_laboral, 50) THEN "Balanceado"
                  ELSE "Mayor actividad fuera de horario laboral",
              ventanas_oportunidad |-> ventanas_oportunidad(h)]

\* line 1333; the hora column of the tables of the filter pass holds the same
\* hour in every row
HorasDeVista(t, cols) ==
    IF Len(t) > 0 /\ "hora" \in cols THEN <<[hora |-> 9, registros |-> Len(t)]>>
    ELSE <<>>

Tab5DeVista(t, cols) ==
    IF Len(t) = 0 THEN Tab5Sin("sin_datos")
    ELSE Tab5Analisis(HorasDeVista(t, cols))

-----------------------------------------------------------------------------
(* One execution of the script with the given widget values.  The table of   *)
(* these executions has the columns pais, fecha, mes and status only.        *)

\* the results of a pass that built the view: metrics and tabs
Muestra(vista, cols) ==
    /\ metricas' = Metricas(vista, cols)
    /\ tabs' = Tabs(vista, cols)
    /\ registros_dia' = Tab1RegistrosDia(vista)
    /\ registros_por_fecha' = Tab4RegistrosPorFecha(vista)
    /\ registros_pais' = Tab2RegistrosPais(vista)
    /\ registros_dia_completo' = CompletoDeVista(vista, cols)
    /\ tamanos' = TamanosDeVista(vista, cols)
    /\ tab1' \in Tab1DeVista(vista, cols)
    /\ tab2' = Tab2Tendencias(MatrizPaisFecha(vista))
    /\ tab4' = Tab4Analisis(Tab4RegistrosPorFecha(vista))
    /\ registros_hora' = HorasDeVista(vista, cols)
    /\ tab5' = Tab5DeVista(vista, cols)
    /\ tab6' = Tab6DeVista(vista, TamanosDeVista(vista, cols))
    /\ matriz_pais_fecha' = Tab6MatrizDeVista(vista)
    /\ correlaciones' = Tab6CorrelacionesDeVista(vista)

\* a pass ended by an exception shows nothing after the widget it reached
NoMuestra ==
    /\ metricas' = SinMetricas
    /\ tabs' = TabsSinEjecutar
    /\ registros_dia' = <<>>
    /\ registros_por_fecha' = <<>>
    /\ registros_pais' = <<>>
    /\ registros_dia_completo' = <<>>
    /\ tamanos' = SinTamanos
    /\ tab1' = Tab1SinDatos
    /\ tab2' = Tab2Tendencias(<<>>)
    /\ tab4' = Tab4Analisis(<<>>)
    /\ registros_hora' = <<>>
    /\ tab5' = Tab5Sin("sin_datos")
    /\ tab6' = Tab6DeVista(<<>>, SinTamanos)
    /\ matriz_pais_fecha' = <<>>
    /\ correlaciones' = SinCorrelaciones("sin_datos")

\* line 94: df['mes'] raises KeyError when the table has no column mes
ErrorDePasada(cols) == IF "mes" \in cols THEN "" ELSE "KeyError: 'mes'"

Pasada(p, m, rango) ==
    /\ df' = NormalizaColumnas(df)
    /\ columnas' = columnas
    /\ pais_seleccionado' = p
    /\ error' = ErrorDePasada(columnas)
    /\ pc' = "hecho"
    /\ IF ErrorDePasada(columnas) = ""
       THEN LET vista == FiltroFecha(PreVista(df, df_filtrado, p, m), rango)
            IN  /\ mes_seleccionado' = m
                /\ fecha_rango' = rango
                /\ df_filtrado' = vista
                /\ Muestra(vista, columnas)
       ELSE /\ UNCHANGED <<mes_seleccionado, fecha_rango>>
            /\ df_filtrado' = <<>>
            /\ NoMuestra

\* the table of a file with the columns cols: a column the file does not
\* have is blank in every row
ConColumnas(t, cols) ==
    [i \in DOMAIN t |->
        [pais |-> t[i].pais, fecha |-> t[i].fecha,
         status |-> IF "status" \in cols THEN t[i].status ELSE "",
         mes |-> IF "mes" \in cols THEN t[i].mes ELSE ""]]

\* first execution on the table t with the columns cols: every widget at its
\* default
PrimeraPasada(t, cols) ==
    /\ df = t
    /\ columnas = cols
    /\ error = ErrorDePasada(cols)
    /\ pais_seleccionado = Todos
    /\ mes_seleccionado = Todos
    /\ pc = "hecho"
    /\ IF ErrorDePasada(cols) = ""
       THEN /\ fecha_rango = <<fecha_min(t), fecha_max(t)>>
            /\ df_filtrado = FiltroFecha(t, <<fecha_min(t), fecha_max(t)>>)
            /\ metricas = Metricas(df_filtrado, cols)
            /\ tabs = Tabs(df_filtrado, cols)
            /\ registros_dia = Tab1RegistrosDia(df_filtrado)
            /\ registros_por_fecha = Tab4RegistrosPorFecha(df_filtrado)
            /\ registros_pais = Tab2RegistrosPais(df_filtrado)
            /\ registros_dia_completo = CompletoDeVista(df_filtrado, cols)
            /\ tamanos = TamanosDeVista(df_filtrado, cols)
            /\ tab1 \in Tab1DeVista(df_filtrado, cols)
            /\ tab2 = Tab2Tendencias(MatrizPaisFecha(df_filtrado))
            /\ tab4 = Tab4Analisis(Tab4RegistrosPorFecha(df_filtrado))
            /\ registros_hora = HorasDeVista(df_filtrado, cols)
            /\ tab5 = Tab5DeVista(df_filtrado, cols)
            /\ tab6 = Tab6DeVista(df_filtrado, TamanosDeVista(df_filtrado, cols))
            /\ matriz_pais_fecha = Tab6MatrizDeVista(df_filtrado)
            /\ correlaciones = Tab6CorrelacionesDeVista(df_filtrado)
       ELSE /\ fecha_rango = <<NaT, NaT>>
            /\ df_filtrado = <<>>
            /\ metricas = SinMetricas
            /\ tabs = TabsSinEjecutar
            /\ registros_dia = <<>>
            /\ registros_por_fecha = <<>>
            /\ registros_pais = <<>>
            /\ registros_dia_completo = <<>>
            /\ tamanos = SinTamanos
            /\ tab1 = Tab1SinDatos
            /\ tab2 = Tab2Tendencias(<<>>)
            /\ tab4 = Tab4Analisis(<<>>)
            /\ registros_hora = <<>>
            /\ tab5 = Tab5Sin("sin_datos")
            /\ tab6 = Tab6DeVista(<<>>, SinTamanos)
            /\ matriz_pais_fecha = <<>>
            /\ correlaciones = SinCorrelaciones("sin_datos")

Init == \E raw \in RawTables : PrimeraPasada(load_data(raw), ColumnasBase)

SeleccionaPais ==
    \E p \in paises_disponibles(df) :
        \E rango \in RangosTrasCambio(PreVista(df, df_filtrado, p, mes_seleccionado),
                                       fecha_rango) :
            Pasada(p, mes_seleccionado, rango)

\* the widgets below the category selectbox exist only in a pass that got
\* past line 94
SeleccionaMes ==
    /\ error = ""
    /\ \E m \in meses_disponibles(df) :
           \E rango \in RangosTrasCambio(PreVista(df, df_filtrado, pais_seleccionado, m),
                                          fecha_rango) :
               Pasada(pais_seleccionado, m, rango)

SeleccionaFechas ==
    /\ error = ""
    /\ \E rango \in RangosPosibles(PreVista(df, df_filtrado, pais_seleccionado,
                                            mes_seleccionado)) :
           Pasada(pais_seleccionado, mes_seleccionado, rango)

Next == SeleccionaPais \/ SeleccionaMes \/ SeleccionaFechas

Spec == Init /\ [][Next]_vars

-----------------------------------------------------------------------------
(* Properties of the filter pass *)

EsAgregadoDe(a, t) ==
    /\ a # <<>>
    /\ \A i \in 1..(Len(a) - 1) : a[i].fecha < a[i + 1].fecha
    /\ SumSeq(Column(a, "registros")) = Len(t)

\* C1: for every non-empty filtered view the daily aggregate (tab1 and tab4)
\* lists each date once, in ascending order, and its counts add up to the
\* number of records of the view.
C1_DailyAggregate ==
    df_filtrado # <<>> =>
        /\ EsAgregadoDe(registros_dia, df_filtrado)
        /\ EsAgregadoDe(registros_por_fecha, df_filtrado)

C1_Witness ==
    /\ Len(df_filtrado) = 3
    /\ Len(registros_dia) = 2
    /\ Cardinality(Unique(df_filtrado, "pais")) = 1

SinDatosEnTabs == \A n \in DOMAIN tabs : tabs[n] = "sin_datos"

CumplePais(r) == pais_seleccionado = Todos \/ r.pais = pais_seleccionado

CumpleMes(r) == mes_seleccionado = Todos \/ r.mes = mes_seleccionado

CumpleRango(r) ==
    Len(fecha_rango) = 2 =>
        /\ fecha_rango[1] # NaT /\ fecha_rango[2] # NaT
        /\ fecha_rango[1] <= r.fecha /\ r.fecha <= fecha_rango[2]

\* C3 as stated: with a complete date range the view is exactly the records
\* of the selected category (all for ALL) dated inside the range.
C3_Original ==
    Len(fecha_rango) = 2 =>
        df_filtrado = SelectSeq(df, LAMBDA r : CumplePais(r) /\ CumpleRango(r))

\* C3 amended: with a complete date range the view is exactly the records
\* of the selected category (all for ALL), of the selected month (all for ALL)
\* and dated inside the range, endpoints included.
C3_FilteredView ==
    Len(fecha_rango) = 2 =>
        df_filtrado =
            SelectSeq(df, LAMBDA r : CumplePais(r) /\ CumpleMes(r) /\ CumpleRango(r))

C3_Witness ==
    /\ pais_seleccionado # Todos
    /\ Len(fecha_rango) = 2
    /\ \E i \in DOMAIN df_filtrado : df_filtrado[i].fecha = fecha_rango[1]
    /\ \E i \in DOMAIN df : CumplePais(df[i]) /\ ~CumpleRango(df[i])
    /\ \E i \in DOMAIN df : ~CumplePais(df[i]) /\ CumpleRango(df[i])

\* C4: every pass leaves the source table as it was, and its view and results
\* are those of the source table under the selection of that pass, whatever
\* the selections and results before it.
C4_Frame ==
    [][/\ df' = df
       /\ LET vista == SelectSeq(df, LAMBDA r : (CumplePais(r) /\ CumpleMes(r)
                                                   /\ CumpleRango(r))')
          IN  /\ df_filtrado' = vista
              /\ metricas' = Metricas(vista, columnas)
              /\ tabs' = Tabs(vista, columnas)
              /\ registros_dia' = Tab1RegistrosDia(vista)]_vars

C4_Witness ==
    /\ pc = "hecho"
    /\ pais_seleccionado # Todos
    /\ mes_seleccionado # Todos
    /\ Len(fecha_rango) = 1
    /\ Len(df_filtrado) < Len(df)

\* C30: when the date-range selection is not a pair of endpoints (only the
\* start has been picked) the date predicate is not applied: the view is the
\* one the category and month filters select.
C30_PartialRange ==
    (error = "" /\ Len(fecha_rango) # 2) =>
        df_filtrado = SelectSeq(df, LAMBDA r : CumplePais(r) /\ CumpleMes(r))

\* only a start date is picked and the view keeps a record dated before it
C30_Witness ==
    /\ error = "" /\ Len(fecha_rango) = 1
    /\ \E i \in DOMAIN df_filtrado : df_filtrado[i].fecha < fecha_rango[1]

-----------------------------------------------------------------------------
(* The percentage analysis of tab2 on category aggregates *)

\* sequences of n counts of Conteos, none larger than tope, largest first
RECURSIVE NoCrecientes(_, _)
NoCrecientes(n, tope) ==
    IF n = 0 THEN {<<>>}
    ELSE UNION {{<<c>> \o s : s \in NoCrecientes(n - 1, c)} :
                    c \in {x \in Conteos : x <= tope}}

MaxConteo == CHOOSE x \in Conteos : \A y \in Conteos : x >= y

\* The result of groupby('pais').size() on some view: one row per category,
\* categories numbered by decreasing volume
AgregadosPais ==
    {[i \in DOMAIN s |-> [pais |-> i, registros |-> s[i]]] :
        s \in UNION {NoCrecientes(n, MaxConteo) : n \in 1..MaxCategorias}}

SinPasada ==
    /\ df = <<>>
    /\ columnas = TodasLasColumnas
    /\ error = ""
    /\ pais_seleccionado = Todos
    /\ mes_seleccionado = Todos
    /\ fecha_rango = <<NaT, NaT>>
    /\ df_filtrado = <<>>
    /\ metricas = Metricas(<<>>, TodasLasColumnas)
    /\ tabs = Tabs(<<>>, TodasLasColumnas)

varsPasada == <<df, columnas, error, pais_seleccionado, mes_seleccionado,
                fecha_rango, df_filtrado, metricas, tabs>>

InitPais ==
    /\ SinPasada
    /\ registros_pais \in AgregadosPais
    /\ registros_dia = <<>>
    /\ registros_por_fecha = <<>>
    /\ registros_dia_completo = <<>>
    /\ tamanos = SinTamanos
    /\ tab1 = Tab1SinDatos
    /\ tab2 = Tab2Tendencias(<<>>)
    /\ tab4 = Tab4Analisis(<<>>)
    /\ registros_hora = <<>>
    /\ tab5 = Tab5Sin("sin_datos")
    /\ tab6 = Tab6DeVista(<<>>, SinTamanos)
    /\ matriz_pais_fecha = <<>>
    /\ correlaciones = SinCorrelaciones("sin_datos")
    /\ pc = "pendiente"

\* lines 736-737 applied to the aggregate
CalculaPorcentaje ==
    /\ pc = "pendiente"
    /\ registros_pais' = SortByRegistrosDesc(ConPorcentaje(registros_pais))
    /\ pc' = "hecho"
    /\ UNCHANGED <<varsPasada, registros_dia, registros_por_fecha,
                   registros_dia_completo, tamanos, tab1, tab2, tab4,
                   registros_hora, tab5, tab6,
                   matriz_pais_fecha, correlaciones>>

NextPais == CalculaPorcentaje

SpecPais == InitPais /\ [][NextPais]_vars

SumaPorcentajes == SumSeq(Column(registros_pais, "porcentaje"))

Abs(x) == IF x >= 0 THEN x ELSE -x

\* C5 as stated: the rounded percentages of any non-empty category aggregate
\* add up to 100 within 0.1 (10 hundredths).
C5_Original ==
    (pc = "hecho" /\ registros_pais # <<>>) => Abs(SumaPorcentajes - 10000) <= 10

\* C5 amended: the rounded percentages add up to 100 within 0.005 times the
\* number of categories, hence within 0.1 for up to 20 categories.
C5_ShareSum ==
    (pc = "hecho" /\ registros_pais # <<>>) =>
        /\ 2 * Abs(SumaPorcentajes - 10000) <= Len(registros_pais)
        /\ Len(registros_pais) <= 20 => Abs(SumaPorcentajes - 10000) <= 10

C5_Witness ==
    /\ pc = "hecho"
    /\ Len(registros_pais) = 3
    /\ SumaPorcentajes = 9999

-----------------------------------------------------------------------------
(* The tab1 and tab6 analyses on aggregates of a view whose table also has   *)
(* the columns dia_semana and, in the last family, s3_size and local_size.   *)

\* groupby('fecha').size() of the same view
RegistrosDiaDe(completo) ==
    LET keys == SortedSeq(Unique(completo, "fecha"), "fecha")
    IN  [k \in DOMAIN keys |->
            [fecha |-> keys[k],
             registros |->
                 SumSeq(Registros(SelectSeq(completo, LAMBDA r : r.fecha = keys[k])))]]

Seguidos(n) == [i \in 1..n |-> i - 1]

\* Sundays and Mondays only: days 0, 1, 7, 8, 14, 15, ...
DomingosYLunes(n) == [i \in 1..n |-> 7 * ((i - 1) \div 2) + ((i - 1) % 2)]

\* data on Sundays and Mondays of consecutive weeks
FamiliaPatron ==
    UNION {{Completo(DomingosYLunes(n), c) : c \in [1..n -> {50, 100}]} :
              n \in 1..MaxDiasPatron}

\* a few consecutive days around the +-10% trend thresholds
FamiliaTendencia ==
    UNION {{Completo(Seguidos(n), c) : c \in [1..n -> {89, 90, 100, 110, 111, 150}]} :
              n \in 1..MaxDiasTendencia}

\* consecutive days, more than one window of the moving average
FamiliaMovil ==
    UNION {{Completo(Seguidos(n), c) : c \in [1..n -> {1, 40}]} :
              n \in 1..MaxDiasMovil}

\* 22 to 22 + MaxDiasExtra consecutive days from any day of the first week;
\* every Sunday has 50 records, every other day of the week its own level
NivelesDe(dia) ==
    IF dia = "Sunday" THEN {50}
    ELSE IF dia \in {"Monday", "Tuesday"} THEN {20, 80, 100, 125, 200}
    ELSE {100}

Niveles == {f \in [Range(dias_orden) -> {20, 50, 80, 100, 125, 200}] :
               \A d \in Range(dias_orden) : f[d] \in NivelesDe(d)}

FamiliaSemanas ==
    {Completo([i \in 1..n |-> ini + i - 1],
              [i \in 1..n |-> f[DiaSemanaDeDia(ini + i - 1)]]) :
        ini \in 0..6, n \in 22..(22 + MaxDiasExtra), f \in Niveles}

\* MaxDiasAnomalia - 1 or MaxDiasAnomalia consecutive days alternating 90 and
\* 110 records, but for the first day and one later day
FamiliaAnomalias ==
    {Completo(Seguidos(n),
              [i \in 1..n |-> IF i = 1 THEN v[1]
                              ELSE IF i = k THEN v[2]
                              ELSE IF i % 2 = 1 THEN 90 ELSE 110]) :
        n \in (MaxDiasAnomalia - 1)..MaxDiasAnomalia, k \in {6, MaxDiasAnomalia - 1},
        v \in {30, 100, 170, 250} \X {30, 100, 170, 250}}

\* up to MaxDiasExtremo consecutive days with 1 record each, but for one day
\* with 2 or with 100: the series whose odd point deviates the most
FamiliaExtremos ==
    {Completo(Seguidos(n), [i \in 1..n |-> IF i = k THEN v ELSE 1]) :
        n \in 1..MaxDiasExtremo, k \in 1..MaxDiasExtremo, v \in {2, 100}}

\* a few consecutive days with counts at 85%, 100% and 115% of 20 and of 100
FamiliaPico ==
    UNION {{Completo(Seguidos(n), c) : c \in [1..n -> {17, 20, 23, 85, 100, 115}]} :
              n \in 1..MaxDiasPico}

\* Sundays and Mondays where the records of a date can carry a second
\* dia_semana value: c[i] records with the name of the day and o[i] with
\* "Wednesday", one row of the aggregate for each pair that occurs
FamiliaDobles ==
    UNION {{SelectSeq([j \in 1..(2 * n) |->
                          [fecha |-> FechaDeDia(DomingosYLunes(n)[(j + 1) \div 2]),
                           dia_semana |->
                               IF j % 2 = 1
                               THEN DiaSemanaDeDia(DomingosYLunes(n)[(j + 1) \div 2])
                               ELSE "Wednesday",
                           registros |-> IF j % 2 = 1 THEN c[(j + 1) \div 2]
                                         ELSE o[(j + 1) \div 2]]],
                      LAMBDA r : r.registros > 0) :
               c \in [1..n -> {50, 100}], o \in [1..n -> {0, 50}]} :
              n \in 1..MaxDiasDobles}

\* 17 consecutive days with 75 records each, but for one day with 63 and the
\* next with 72: the mean is 1260 / 17 and 63 is 0.85 x the mean
FamiliaUmbral ==
    {Completo(Seguidos(17),
              [i \in 1..17 |-> IF i = k THEN 63
                               ELSE IF i = (k % 17) + 1 THEN 72
                               ELSE 75]) : k \in 1..17}

\* hourly aggregates over the first MaxHoras of the hours 7, 8, 18, 19, 0, 23
\* and 12, each with 10 or 30 records or none
HorasModelo == {<<7, 8, 18, 19, 0, 23, 12>>[i] : i \in 1..MaxHoras}

FamiliaHoras ==
    {SelectSeq([k \in 1..24 |->
                   [hora |-> k - 1,
                    registros |-> IF k - 1 \in HorasModelo THEN c[k - 1] ELSE 0]],
               LAMBDA r : r.registros > 0) : c \in [HorasModelo -> {0, 10, 30}]}
        \ {<<>>}

FamiliaTamanos ==
    UNION {[1..n -> {0, 10, 100}] : n \in 1..MaxTamanos}

InitAnalisis ==
    /\ SinPasada
    /\ registros_pais = <<>>
    /\ \/ /\ registros_dia_completo \in
                 FamiliaPatron \cup FamiliaTendencia \cup FamiliaMovil \cup FamiliaSemanas
                     \cup FamiliaAnomalias \cup FamiliaExtremos \cup FamiliaPico
                     \cup FamiliaDobles \cup FamiliaUmbral
          /\ tamanos = SinTamanos
          /\ registros_hora = <<>>
       \/ /\ registros_dia_completo \in
                 UNION {{Completo(Seguidos(n), c) : c \in [1..n -> {40, 100}]} :
                           n \in 1..2}
          /\ tamanos \in {[presente |-> TRUE, s3_size |-> x] : x \in FamiliaTamanos}
          /\ registros_hora = <<>>
       \/ /\ registros_dia_completo = Completo(Seguidos(1), <<40>>)
          /\ tamanos = SinTamanos
          /\ registros_hora \in FamiliaHoras
    /\ registros_dia = RegistrosDiaDe(registros_dia_completo)
    /\ registros_por_fecha = SortByFecha(registros_dia)
    /\ tab1 = Tab1SinDatos
    /\ tab2 = Tab2Tendencias(<<>>)
    /\ tab4 = Tab4Analisis(<<>>)
    /\ tab5 = Tab5Sin("sin_datos")
    /\ tab6 = Tab6DeVista(<<>>, SinTamanos)
    /\ matriz_pais_fecha = <<>>
    /\ correlaciones = SinCorrelaciones("sin_datos")
    /\ pc = "pendiente"

\* the analyses of tab1 and tab6 on the aggregates
Analiza ==
    /\ pc = "pendiente"
    /\ \E caida \in PatronesCaida(registros_dia, registros_dia_completo, TRUE),
          pico \in PatronesPico(registros_dia, registros_dia_completo, TRUE) :
           tab1' = Tab1Analisis(registros_dia, caida, pico)
    /\ tab4' = Tab4Analisis(registros_por_fecha)
    /\ tab5' = Tab5Analisis(registros_hora)
    /\ tab6' = Tab6Tamanos(tamanos)
    /\ pc' = "hecho"
    /\ UNCHANGED <<varsPasada, registros_dia, registros_por_fecha, registros_pais,
                   registros_dia_completo, tamanos, registros_hora, tab2,
                   matriz_pais_fecha, correlaciones>>

NextAnalisis == Analiza

SpecAnalisis == InitAnalisis /\ [][NextAnalisis]_vars

-----------------------------------------------------------------------------
(* Properties of the tab1 and tab6 analyses *)

Hecho == pc = "hecho"

N == Len(registros_dia)

X == Registros(registros_dia)

\* C6: the 7-day moving average has the length of the series, starts with
\* the first value, and at index i is the mean of the points max(first, i-6)..i.
C6_MovingAverage ==
    Hecho =>
        /\ Len(tab1.promedio_movil_7d) = N
        /\ tab1.promedio_movil_7d[1] = Numero(X[1])
        /\ \A i \in 1..N :
               LET desde == Max2(1, i - 6)
               IN  tab1.promedio_movil_7d[i] =
                       Valor("num", SumSeq(SubSeq(X, desde, i)), i - desde + 1)

C6_Witness ==
    /\ Hecho
    /\ N >= 8
    /\ X[1] # X[8]
    /\ tab1.promedio_movil_7d[8].den = 7

TodosIguales(x) == \A i, j \in DOMAIN x : x[i] = x[j]

\* C7: on a series whose values are all equal (a single point included) the
\* 2-sigma detector and the low-volume alert flag nothing, and on a size
\* column whose values are all equal the IQR detector flags nothing.
C7_ConstantSeries ==
    Hecho =>
        /\ TodosIguales(X) => (tab1.anomalias = <<>> /\ tab1.dias_problema = <<>>)
        /\ (tamanos.presente /\ TodosIguales(tamanos.s3_size)) =>
               (tab6.estado = "calculado" /\ tab6.grandes = <<>> /\ tab6.pequenos = <<>>)

C7_Witness ==
    /\ Hecho
    /\ N = 2 /\ TodosIguales(X)
    /\ tamanos.presente /\ Len(tamanos.s3_size) >= 3 /\ TodosIguales(tamanos.s3_size)
    /\ tamanos.s3_size[1] > 0
    /\ tab1.anomalias = <<>> /\ tab6.grandes = <<>>

\* C8: the trend is the percent change from the first to the last value,
\* growth above +10%, decline below -10%, stable otherwise (+10% and -10%
\* themselves are stable); [100, 100, 100, 150] is +50% and growth.
C8_Trend ==
    Hecho =>
        LET c == tab1.cambio_porcentual
        IN  /\ c.tipo = "num" /\ c.den > 0
            /\ c.num * X[1] = (X[N] - X[1]) * 100 * c.den
            /\ tab1.tendencia = "crecimiento" <=> 10 * X[N] > 11 * X[1]
            /\ tab1.tendencia = "descenso" <=> 10 * X[N] < 9 * X[1]
            /\ tab1.tendencia = "estable" <=>
                   (9 * X[1] <= 10 * X[N] /\ 10 * X[N] <= 11 * X[1])
            /\ X = <<100, 100, 100, 150>> =>
                   (c.num = 50 * c.den /\ tab1.tendencia = "crecimiento")

C8_Witness ==
    /\ Hecho
    /\ X = <<100, 100, 100, 150>>
    /\ tab1.tendencia = "crecimiento"

\* the records of the date of row i of the aggregate by date and day
DeLaFecha(i) ==
    SumSeq(Registros(SelectSeq(registros_dia,
                               LAMBDA r : r.fecha = registros_dia_completo[i].fecha)))

\* the days of the range below 0.85 x the overall daily mean
Bajos == {i \in DOMAIN registros_dia_completo :
             100 * N * DeLaFecha(i) < 85 * SumSeq(X)}

DelDia(d) == {i \in DOMAIN registros_dia_completo :
                 registros_dia_completo[i].dia_semana = d}

BajosDelDia(d) == Cardinality(Bajos \cap DelDia(d))

\* C9: the drop analysis takes the days below 0.85 x the mean, picks a day of
\* the week that occurs most often among them, and reports it if and only if
\* (its days below the threshold) / (its days in the range) is at least 50%.
C9_Original ==
    Hecho =>
        LET p == tab1.caida
        IN  /\ p.estado \in {"sin_caidas", "no_consistente", "reportado"}
            /\ p.estado = "sin_caidas" <=> Bajos = {}
            /\ Bajos # {} =>
                   /\ \A d \in Range(dias_orden) : BajosDelDia(p.dia) >= BajosDelDia(d)
                   /\ p.cantidad = BajosDelDia(p.dia)
                   /\ p.total = Cardinality(DelDia(p.dia))
                   /\ p.estado = "reportado" <=> 2 * p.cantidad >= p.total

Domingos == DelDia("Sunday")

OtrosDias == DOMAIN registros_dia_completo \ Domingos

SumaDe(I) == SumSeq(Registros(SelectSeq(registros_dia_completo,
                                        LAMBDA r : \E i \in I : registros_dia_completo[i] = r)))

\* every Sunday has half the mean count of the other days, on 4 Sundays or more
DomingosALaMitad ==
    /\ Cardinality(Domingos) >= 4
    /\ OtrosDias # {}
    /\ \A i \in Domingos :
           2 * registros_dia_completo[i].registros * Cardinality(OtrosDias) = SumaDe(OtrosDias)

SinHuecos ==
    \A i \in 1..(N - 1) :
        DiaDeFecha(registros_dia[i + 1].fecha) = DiaDeFecha(registros_dia[i].fecha) + 1

\* C10 as stated: whenever every Sunday has 50% of the weekday mean on 4
\* Sundays or more, the drop pattern is reported for Sunday with consistency
\* of at least 50% and a magnitude within 5 points of 50%.
C10_Original ==
    (Hecho /\ DomingosALaMitad) =>
        LET p == tab1.caida
        IN  /\ p.estado = "reportado"
            /\ p.dia = "Sunday"
            /\ 2 * p.cantidad >= p.total
            /\ p.impacto.tipo = "num"
            /\ p.impacto.num >= 45 * p.impacto.den
            /\ p.impacto.num <= 55 * p.impacto.den

\* C10 amended: if moreover the series has a point for every calendar day of
\* its range and no other day of the week has as many days below the
\* threshold as Sunday, the drop pattern is reported for Sunday, with every
\* Sunday counted (consistency 100%) and a magnitude from 45% to under 50%.
C10_SundayPattern ==
    (/\ Hecho
     /\ DomingosALaMitad
     /\ SinHuecos
     /\ \A d \in Range(dias_orden) \ {"Sunday"} : BajosDelDia(d) < BajosDelDia("Sunday")) =>
        LET p == tab1.caida
        IN  /\ p.estado = "reportado"
            /\ p.dia = "Sunday"
            /\ p.cantidad = p.total
            /\ p.total = Cardinality(Domingos)
            /\ p.impacto.tipo = "num" /\ p.impacto.den > 0
            /\ p.impacto.num >= 45 * p.impacto.den
            /\ p.impacto.num < 50 * p.impacto.den

C10_Witness ==
    /\ Hecho
    /\ DomingosALaMitad
    /\ SinHuecos
    /\ \E i \in OtrosDias : registros_dia_completo[i].registros = 80
    /\ tab1.caida.estado = "reportado"
    /\ tab1.caida.dia = "Sunday"
    /\ tab1.caida.cantidad >= 4

\* C14: the short-horizon forecast is computed when the daily aggregate has
\* at least 3 points and is not computed when it has fewer than 3.
C14_Original ==
    Hecho => (tab4.pronostico.estado = "calculado" <=> Len(registros_por_fecha) >= 3)

\* C21: the low-volume alert flags exactly the days whose count is strictly
\* below 0.10 x the daily mean, in date order; the list is empty, and the
\* no-critical-day message is shown, exactly when there is no such day.
C21_LowVolume ==
    Hecho =>
        /\ tab1.dias_problema =
               SelectSeq(registros_dia, LAMBDA r : 10 * r.registros * N < SumSeq(X))
        /\ tab1.dias_problema = <<>> <=>
               \A i \in 1..N : 10 * X[i] * N >= SumSeq(X)

\* several days are flagged and several are not
C21_Witness ==
    /\ Hecho
    /\ Len(tab1.dias_problema) >= 2
    /\ Len(tab1.dias_problema) + 2 <= N

\* C26: with the sample standard deviation the 2-sigma detector flags no
\* point of a daily series of fewer than 6 points, and no flagged point has
\* severity high in a series of fewer than 11 points.
C26_SmallSeries ==
    Hecho =>
        /\ N < 6 => (tab1.anomalias = <<>> /\ tab1.detalles = <<>>)
        /\ N < 11 => \A k \in DOMAIN tab1.detalles : tab1.detalles[k].severidad # "alta"

\* 5 days of which one has 100 times the records of the others: not flagged,
\* although it is the whole variance of the series
C26_Witness ==
    /\ Hecho
    /\ N = 5
    /\ \E i \in 1..N : X[i] = 100 /\ \A j \in 1..N \ {i} : X[j] = 1
    /\ tab1.anomalias = <<>>

\* the calendar days from the earliest to the latest date of the view, and
\* those of them without a record
DiasDelRango ==
    {k \in 0..60 : /\ registros_dia[1].fecha <= FechaDeDia(k)
                   /\ FechaDeDia(k) <= registros_dia[N].fecha}

DiasSinDatos ==
    {k \in DiasDelRango : \A i \in 1..N : registros_dia[i].fecha # FechaDeDia(k)}

\* C29: for a non-empty view the days with data are at most the calendar days
\* from its earliest to its latest date inclusive, the availability is their
\* ratio and lies in (0%, 100%], and the missing-days warning is shown exactly
\* when a calendar day of that span has no record; it then reports the number
\* of such days, which is at least 1.
C29_Uptime ==
    (Hecho /\ N > 0) =>
        LET u == tab1.uptime
        IN  /\ u.dias_con_datos = N
            /\ u.dias_esperados = Cardinality(DiasDelRango)
            /\ u.dias_con_datos <= u.dias_esperados
            /\ u.uptime.tipo = "num"
            /\ u.uptime.num * u.dias_esperados = 100 * N * u.uptime.den
            /\ u.uptime.num > 0
            /\ u.uptime.num <= 100 * u.uptime.den
            /\ u.dias_faltantes # NA <=> DiasSinDatos # {}
            /\ u.dias_faltantes # NA =>
                   /\ u.dias_faltantes = Numero(Cardinality(DiasSinDatos))
                   /\ Cardinality(DiasSinDatos) >= 1

C29_Witness ==
    /\ Hecho
    /\ N = 3
    /\ Cardinality(DiasDelRango) = 8
    /\ tab1.uptime.dias_faltantes = Numero(5)
    /\ MenorQue(tab1.uptime.uptime, 38)

\* the days of the range above 1.15 x the overall daily mean
Altos == {i \in DOMAIN registros_dia_completo :
             100 * N * DeLaFecha(i) > 115 * SumSeq(X)}

AltosDelDia(d) == Cardinality(Altos \cap DelDia(d))

\* C23: the peak analysis takes the days strictly above 1.15 x the mean,
\* picks a day of the week that occurs most often among them, and reports it
\* if and only if (its days above the threshold) / (its days in the range) is
\* at least 50%.
C23_Original ==
    Hecho =>
        LET p == tab1.pico
        IN  /\ p.estado \in {"sin_picos", "no_consistente", "reportado"}
            /\ p.estado = "sin_picos" <=> Altos = {}
            /\ Altos # {} =>
                   /\ \A d \in Range(dias_orden) :
                          AltosDelDia(p.dia) >= AltosDelDia(d)
                   /\ p.cantidad = AltosDelDia(p.dia)
                   /\ p.total = Cardinality(DelDia(p.dia))
                   /\ p.estado = "reportado" <=> 2 * p.cantidad >= p.total

\* C27: a reported drop has a magnitude strictly above 15% and a reported
\* peak has an increment strictly above 15%.
C27_Original ==
    Hecho =>
        /\ tab1.caida.estado = "reportado" => MayorQue(tab1.caida.impacto, 15)
        /\ tab1.pico.estado = "reportado" => MayorQue(tab1.pico.impacto, 15)

\* C28: the consistency ratio of the drop and of the peak candidate is above
\* 0% and at most 100%: the candidate's rows of the aggregate by date and day
\* on dates beyond the threshold are at least 1 and at most its rows in the
\* range, also when a date has rows for two values of dia_semana.
C28_Consistency ==
    Hecho =>
        \A p \in {tab1.caida, tab1.pico} :
            p.estado \in {"no_consistente", "reportado"} =>
                /\ p.total = Cardinality(DelDia(p.dia))
                /\ p.cantidad >= 1
                /\ p.cantidad <= p.total
                /\ p = tab1.caida =>
                       /\ p.cantidad >= BajosDelDia(p.dia)
                       /\ p.cantidad <= Cardinality({i \in DelDia(p.dia) :
                              100 * N * DeLaFecha(i) <= 85 * SumSeq(X)})
                /\ p = tab1.pico =>
                       /\ p.cantidad >= AltosDelDia(p.dia)
                       /\ p.cantidad <= Cardinality({i \in DelDia(p.dia) :
                              100 * N * DeLaFecha(i) >= 115 * SumSeq(X)})

\* a date below the threshold has rows for its day and for "Wednesday", and
\* "Wednesday" is the candidate
C28_Witness ==
    /\ Hecho
    /\ tab1.caida.dia = "Wednesday"
    /\ tab1.caida.cantidad >= 1
    /\ tab1.caida.total >= 2
    /\ \E i \in Bajos, j \in Bajos :
           /\ registros_dia_completo[i].fecha = registros_dia_completo[j].fecha
           /\ registros_dia_completo[i].dia_semana = "Sunday"
           /\ registros_dia_completo[j].dia_semana = "Wednesday"

\* the records of the hours of the set H in the hourly aggregate
VolumenDe(H) ==
    SumSeq(Registros(SelectSeq(registros_hora, LAMBDA r : r.hora \in H)))

\* C24: every hour from 0 to 23 is either in the window 8..18 or outside it,
\* the volume inside is that of the hours 8 to 18 and the volume outside that
\* of the other hours, so the two add up to the total hourly volume, and the
\* share inside is inside / total, between 0% and 100%.
C24_BusinessHours ==
    (Hecho /\ registros_hora # <<>>) =>
        /\ \A k \in DOMAIN registros_hora : registros_hora[k].hora \in 0..23
        /\ tab5.horario_laboral = VolumenDe(8..18)
        /\ tab5.horario_no_laboral = VolumenDe((0..23) \ (8..18))
        /\ tab5.horario_laboral + tab5.horario_no_laboral = VolumenDe(0..23)
        /\ tab5.pct_laboral.tipo = "num"
        /\ tab5.pct_laboral.den > 0
        /\ tab5.pct_laboral.num * VolumenDe(0..23) =
               100 * tab5.horario_laboral * tab5.pct_laboral.den
        /\ tab5.pct_laboral.num >= 0
        /\ tab5.pct_laboral.num <= 100 * tab5.pct_laboral.den

\* the hours 7, 8, 18 and 19 all have records
C24_Witness ==
    /\ Hecho
    /\ \A x \in {7, 8, 18, 19} :
           \E k \in DOMAIN registros_hora : registros_hora[k].hora = x
    /\ tab5.horario_laboral = 40
    /\ tab5.horario_no_laboral = 20
    /\ MayorQue(tab5.pct_laboral, 66)
    /\ MenorQue(tab5.pct_laboral, 67)

\* C25: the maintenance-window candidates are exactly the hours of the
\* aggregate whose count is strictly below 50% of the mean count of the hours
\* present, and an hour with the maximum count is never one of them.
C25_MaintenanceWindow ==
    (Hecho /\ registros_hora # <<>>) =>
        LET n == Len(registros_hora)
            total == VolumenDe(0..23)
            flagged(k) == \E j \in DOMAIN tab5.ventanas_oportunidad :
                              tab5.ventanas_oportunidad[j] = registros_hora[k]
        IN  /\ \A k \in 1..n : flagged(k) <=> 2 * n * registros_hora[k].registros < total
            /\ \A j \in DOMAIN tab5.ventanas_oportunidad :
                   \E k \in 1..n : tab5.ventanas_oportunidad[j] = registros_hora[k]
            /\ \A k \in 1..n :
                   (\A m \in 1..n : registros_hora[m].registros
                                        <= registros_hora[k].registros) => ~flagged(k)

\* three hours, one with 10 records, below half the mean, and is flagged
C25_Witness ==
    /\ Hecho
    /\ Len(registros_hora) = 3
    /\ VolumenDe(0..23) = 70
    /\ Len(tab5.ventanas_oportunidad) = 1
    /\ tab5.ventanas_oportunidad[1].registros = 10

\* the fraction n / d in lowest terms, d > 0
EnMinimos(n, d) ==
    LET g == MCD(IF n >= 0 THEN n ELSE -n, d) IN <<n \div g, d \div g>>

\* the counts of the last 7 points of the tab4 daily aggregate
Ultimos7 ==
    Registros(SubSeq(registros_por_fecha, Len(registros_por_fecha) - 6,
                     Len(registros_por_fecha)))

\* C22: the forecast takes the last 7 points, a first half of 3 points and a
\* second half of 4; delta% = (mean of the second half - mean of the first
\* half) / mean of the first half x 100, and the next value is
\* (mean of the last 3 points) x (1 + delta% / 100).
C22_Forecast ==
    (Hecho /\ tab4.pronostico.estado = "calculado") =>
        LET u == Ultimos7
            primera == u[1] + u[2] + u[3]
            segunda == u[4] + u[5] + u[6] + u[7]
            ultimos3 == u[5] + u[6] + u[7]
            delta == tab4.pronostico.tendencia_pct
            p == tab4.pronostico.pronostico
        IN  /\ Len(u) = 7
            /\ delta.tipo = "num" /\ delta.den > 0
            \* delta * (primera / 3) = (segunda / 4 - primera / 3) * 100
            /\ delta.num * 4 * primera = (3 * segunda - 4 * primera) * 100 * delta.den
            /\ p.tipo = "num" /\ p.den > 0
            \* p = (ultimos3 / 3) * (100 + delta) / 100, with delta as above
            /\ EnMinimos(p.num, p.den) =
                   EnMinimos(ultimos3 * (400 * primera + (3 * segunda - 4 * primera) * 100),
                             3 * 100 * 4 * primera)

\* a forecast over more than 7 points with a rising second half
C22_Witness ==
    /\ Hecho /\ tab4.pronostico.estado = "calculado"
    /\ Len(registros_por_fecha) > 7
    /\ tab4.pronostico.tendencia_pct.num > 0
    /\ Ultimos7[1] # Ultimos7[7]

\* n * (x[i] - mean) for every point of a series
Desv(x) == LET s == SumSeq(x) IN [i \in DOMAIN x |-> Len(x) * x[i] - s]

\* |x[i] - mean| > k * stddev, from d = Desv(x) and q = the sum of the squares
\* of d; the sample standard deviation of one point is undefined and nothing
\* exceeds it
FueraDeSigmas(d, q, i, k) == Len(d) >= 2 /\ d[i] * d[i] * (Len(d) - 1) > k * k * q

\* C19: the standard-deviation detector flags exactly the daily points with
\* |value - mean| > 2 * stddev, in date order; each one is tagged a peak when
\* its value is above the mean and a drop otherwise, with severity high when
\* its deviation exceeds 3 * stddev and moderate otherwise.
C19_StdAnomalies ==
    Hecho =>
        LET d == Desv(Registros(registros_dia))
            q == SumSeq([j \in DOMAIN d |-> d[j] * d[j]])
            senalados == SelectSeq([i \in DOMAIN d |-> i],
                                   LAMBDA i : FueraDeSigmas(d, q, i, 2))
        IN  /\ tab1.anomalias = [k \in DOMAIN senalados |-> registros_dia[senalados[k]]]
            /\ DOMAIN tab1.detalles = DOMAIN senalados
            /\ \A k \in DOMAIN senalados :
                   LET i == senalados[k]
                       a == tab1.detalles[k]
                   IN  /\ a.fecha = registros_dia[i].fecha
                       /\ a.registros = registros_dia[i].registros
                       /\ a.tipo = IF d[i] > 0 THEN "PICO" ELSE "CAIDA"
                       /\ a.severidad = IF FueraDeSigmas(d, q, i, 3)
                                        THEN "alta" ELSE "moderada"

\* a day more than 3 standard deviations above the mean
C19_Witness ==
    /\ Hecho
    /\ \E k \in DOMAIN tab1.detalles :
           tab1.detalles[k].tipo = "PICO" /\ tab1.detalles[k].severidad = "alta"

\* 4 * Q1, 4 * Q3 and 4 * IQR of the size field
Q1x4 == Cuantil4(tamanos.s3_size, 1)

Q3x4 == Cuantil4(tamanos.s3_size, 3)

IQRx4 == Q3x4 - Q1x4

\* size > Q3 + 1.5 * IQR
SobreElLimite(v) == 8 * v > 2 * Q3x4 + 3 * IQRx4

\* size < max(0, Q1 - 1.5 * IQR)
BajoElLimite(v) == v < 0 \/ (8 * v < 2 * Q1x4 - 3 * IQRx4)

\* C20: the IQR detector on the size field flags exactly the records with
\* size above Q3 + 1.5 * IQR or below max(0, Q1 - 1.5 * IQR); when
\* Q1 - 1.5 * IQR is at most 0 no record with a non-negative size is flagged
\* as abnormally small.
C20_IqrAnomalies ==
    (Hecho /\ tamanos.presente) =>
        /\ tab6.estado = "calculado"
        /\ tab6.grandes = SelectSeq(tamanos.s3_size, SobreElLimite)
        /\ tab6.pequenos = SelectSeq(tamanos.s3_size, BajoElLimite)
        /\ 2 * Q1x4 - 3 * IQRx4 <= 0 =>
               \A k \in DOMAIN tab6.pequenos : tab6.pequenos[k] < 0

\* the lower limit is floored at 0, a record of size 0 is not flagged as small
\* and a record is flagged as large
C20_Witness ==
    /\ Hecho /\ tamanos.presente
    /\ 2 * Q1x4 - 3 * IQRx4 < 0
    /\ \E i \in DOMAIN tamanos.s3_size : tamanos.s3_size[i] = 0
    /\ tab6.pequenos = <<>>
    /\ tab6.grandes # <<>>

-----------------------------------------------------------------------------
(* The tab6 correlation analysis on aggregates by date and category *)

MaxFechasCorr == 3

\* an aggregate over the first n days of the calendar and the categories cs,
\* g[k] records in the k-th (fecha, pais) combination; combinations without
\* records have no row
MatrizDe(cs, g, n) ==
    SelectSeq([k \in 1..(n * Len(cs)) |->
                  [fecha |-> FechaDeDia((k - 1) \div Len(cs)),
                   pais |-> cs[((k - 1) % Len(cs)) + 1],
                   registros |-> g[k]]],
              LAMBDA r : r.registros > 0)

\* two categories with up to 2 records a day each on up to MaxFechasCorr
\* days, or three categories on 3 days of which only the first has more than
\* 1 record a day; every day of the aggregate has records
FamiliaMatrices ==
    UNION {{m \in {MatrizDe(<<"gt", "sv">>, g, n) : g \in [1..(2 * n) -> 0..2]} :
               Cardinality(Unique(m, "fecha")) = n} :
           n \in 1..MaxFechasCorr}
    \cup {m \in {MatrizDe(OrdenPaises, g, 3) :
                    g \in {h \in [1..9 -> 0..2] : \A k \in 1..9 : k % 3 # 1 => h[k] <= 1}} :
              Cardinality(Unique(m, "fecha")) = 3}

InitCorrelacion ==
    /\ SinPasada
    /\ registros_pais = <<>>
    /\ registros_dia = <<>>
    /\ registros_por_fecha = <<>>
    /\ registros_dia_completo = <<>>
    /\ tamanos = SinTamanos
    /\ tab1 = Tab1SinDatos
    /\ tab2 = Tab2Tendencias(<<>>)
    /\ tab4 = Tab4Analisis(<<>>)
    /\ registros_hora = <<>>
    /\ tab5 = Tab5Sin("sin_datos")
    /\ tab6 = Tab6DeVista(<<>>, SinTamanos)
    /\ matriz_pais_fecha \in FamiliaMatrices
    /\ correlaciones = SinCorrelaciones("sin_datos")
    /\ pc = "pendiente"

Correlaciona ==
    /\ pc = "pendiente"
    /\ correlaciones' = Tab6Correlaciones(matriz_pais_fecha)
    /\ pc' = "hecho"
    /\ UNCHANGED <<varsPasada, registros_dia, registros_por_fecha, registros_pais,
                   registros_dia_completo, tamanos, tab1, tab2, tab4,
                   registros_hora, tab5, tab6,
                   matriz_pais_fecha>>

NextCorrelacion == Correlaciona

SpecCorrelacion == InitCorrelacion /\ [][NextCorrelacion]_vars

-----------------------------------------------------------------------------
(* Properties of the correlation analysis *)

CategoriasDeMatriz == Unique(matriz_pais_fecha, "pais")

FechasDeMatriz == Unique(matriz_pais_fecha, "fecha")

\* the count of category c on date f, 0 when the combination has no records
Conteo(f, c) ==
    LET filas == {k \in DOMAIN matriz_pais_fecha :
                     matriz_pais_fecha[k].fecha = f /\ matriz_pais_fecha[k].pais = c}
    IN  IF filas = {} THEN 0 ELSE matriz_pais_fecha[CHOOSE k \in filas : TRUE].registros

\* the dates of the aggregate, in order
FechasEnOrden == SortedSeq(FechasDeMatriz, "fecha")

\* the series of category c over the dates of the aggregate
Serie(c) == [i \in DOMAIN FechasEnOrden |-> Conteo(FechasEnOrden[i], c)]

\* n * (count - mean) of the i-th point of a series
Centrado(x, i) == Len(x) * x[i] - SumSeq(x)

\* n^2 * the sum of the products of the centred series of a and b
Producto(a, b) ==
    LET x == Serie(a)
        y == Serie(b)
    IN  SumSeq([i \in DOMAIN x |-> Centrado(x, i) * Centrado(y, i)])

CorrelacionDefinida(a, b) == Producto(a, a) > 0 /\ Producto(b, b) > 0

\* Pearson's r of the series of a and b compared with p / q
RMenorQue(a, b, p, q) ==
    /\ CorrelacionDefinida(a, b)
    /\ q * Producto(a, b) < 0
    /\ q * q * Producto(a, b) * Producto(a, b) > p * p * Producto(a, a) * Producto(b, b)

RMayorQue(a, b, p, q) ==
    /\ CorrelacionDefinida(a, b)
    /\ q * Producto(a, b) > 0
    /\ q * q * Producto(a, b) * Producto(a, b) > p * p * Producto(a, a) * Producto(b, b)

\* the entries of a list of reported pairs that name the categories a and b
EntradasDe(pares, a, b) ==
    {k \in DOMAIN pares : {pares[k].pais1, pares[k].pais2} = {Upper(a), Upper(b)}}

\* C11: once the scan has run, every unordered pair of distinct categories
\* appears at most once in each list: once among the competing pairs exactly
\* when its Pearson correlation over the date x category counts (0 for a
\* missing combination) is below -0.3, once among the co-moving pairs
\* exactly when it is above 0.7, and in neither list otherwise.
C11_CorrelationScan ==
    (Hecho /\ correlaciones.estado = "calculado") =>
        \A a \in CategoriasDeMatriz : \A b \in CategoriasDeMatriz \ {a} :
            /\ Cardinality(EntradasDe(correlaciones.pares_negativos, a, b))
                   = IF RMenorQue(a, b, -3, 10) THEN 1 ELSE 0
            /\ Cardinality(EntradasDe(correlaciones.pares_positivos, a, b))
                   = IF RMayorQue(a, b, 7, 10) THEN 1 ELSE 0

\* three categories on three dates: one pair competing, one co-moving, one
\* with a defined correlation that is reported in neither list
C11_Witness ==
    /\ Hecho
    /\ correlaciones.estado = "calculado"
    /\ Len(correlaciones.pares_negativos) >= 1
    /\ Len(correlaciones.pares_positivos) >= 1
    /\ \E a \in CategoriasDeMatriz : \E b \in CategoriasDeMatriz \ {a} :
           /\ CorrelacionDefinida(a, b)
           /\ EntradasDe(correlaciones.pares_negativos, a, b) = {}
           /\ EntradasDe(correlaciones.pares_positivos, a, b) = {}

\* the series of a and b are exact negatives after mean-centring, not constant
NegativosExactos(a, b) ==
    /\ \A i \in DOMAIN FechasEnOrden : Centrado(Serie(a), i) = -Centrado(Serie(b), i)
    /\ \E i \in DOMAIN FechasEnOrden : Centrado(Serie(a), i) # 0

\* the reported coefficient is at most -99/100
CorrHasta99(c) ==
    c.cov < 0 /\ 10000 * c.cov * c.cov >= 9801 * c.vx * c.vy

\* C12: two categories whose series are exact negatives of each other after
\* mean-centring, and not constant, are reported as a competing pair with a
\* correlation of at most -0.99, and are not reported as co-moving.
C12_ExactNegatives ==
    (Hecho /\ Cardinality(CategoriasDeMatriz) >= 2) =>
        \A a \in CategoriasDeMatriz : \A b \in CategoriasDeMatriz \ {a} :
            NegativosExactos(a, b) =>
                /\ correlaciones.estado = "calculado"
                /\ \E k \in EntradasDe(correlaciones.pares_negativos, a, b) :
                       CorrHasta99(correlaciones.pares_negativos[k].correlacion)
                /\ EntradasDe(correlaciones.pares_positivos, a, b) = {}

C12_Witness ==
    /\ Hecho
    /\ Cardinality(FechasDeMatriz) >= 3
    /\ \E a \in CategoriasDeMatriz : \E b \in CategoriasDeMatriz \ {a} :
           /\ NegativosExactos(a, b)
           /\ EntradasDe(correlaciones.pares_negativos, a, b) # {}

\* C13: the correlation analysis runs only on a view with at least 2
\* categories and at least 2 distinct dates; on any other view it is skipped
\* and leaves no correlation result, neither pairs nor a message.
C13_Original ==
    LET suficiente == /\ Cardinality(Unique(df_filtrado, "pais")) >= 2
                      /\ Cardinality(Unique(df_filtrado, "fecha")) >= 2
    IN  /\ correlaciones.estado = "calculado" => suficiente
        /\ ~suficiente => /\ correlaciones.pares_negativos = <<>>
                          /\ correlaciones.pares_positivos = <<>>
                          /\ correlaciones.mensaje = "ninguno"

\* the statistics a pass shows as numbers
Estadisticas ==
    {metricas[c] : c \in DOMAIN metricas}
        \cup {tab1.cambio_porcentual, tab1.coef_variacion, tab1.caida.impacto,
              tab4.coef_variacion, tab4.pronostico.tendencia_pct,
              tab4.pronostico.pronostico}
        \cup Range(tab1.promedio_movil_7d)

\* C17: on every non-empty filtered view no statistic of the pass comes from
\* a division by zero or from an undefined value, and a statistic that is
\* degenerate (the variability of a single-point daily aggregate) is
\* "not applicable".
C17_Original ==
    (error = "" /\ df_filtrado # <<>>) =>
        /\ \A v \in Estadisticas : v.tipo \notin {"nan", "inf"}
        /\ Len(registros_dia) = 1 =>
               tab1.coef_variacion = NA /\ tab4.coef_variacion = NA

-----------------------------------------------------------------------------
(* The script on files with and without the columns mes, status, hora,       *)
(* dia_semana, s3_size and local_size                                        *)

MaxRegistrosColumnas == 2

\* records of gt on one date with each status value, and a record of sv on a
\* date of the next month
RegistrosColumnas ==
    <<[fecha |-> FechasSeq[1], pais |-> "gt", status |-> "Success"],
      [fecha |-> FechasSeq[1], pais |-> "gt", status |-> "SUCCESS"],
      [fecha |-> FechasSeq[1], pais |-> "gt", status |-> "Upload success"],
      [fecha |-> FechasSeq[1], pais |-> "gt", status |-> "Succes"],
      [fecha |-> FechasSeq[1], pais |-> "gt", status |-> "Failed"],
      [fecha |-> FechasSeq[2], pais |-> "sv", status |-> "Success"]>>

TablasColumnas ==
    UNION {[1..n -> Range(RegistrosColumnas)] : n \in 0..MaxRegistrosColumnas}

InitColumnas ==
    \E raw \in TablasColumnas, cols \in SUBSET TodasLasColumnas :
        PrimeraPasada(ConColumnas(load_data(raw), cols), cols)

SpecColumnas == InitColumnas /\ [][Next]_vars

-----------------------------------------------------------------------------
(* Properties of the script on files with optional columns *)

\* the state of a tab that needs the columns cs
EstadoCon(cs) == IF cs \subseteq columnas THEN "calculado" ELSE "omitido"

\* C16: on a file with fecha and pais and any subset of the other columns
\* the pass completes without error; on a non-empty view each analysis whose
\* column is absent is skipped and every other analysis produces its result.
C16_Original ==
    /\ error = ""
    /\ df_filtrado # <<>> =>
           /\ tabs = <<"calculado", "calculado", EstadoCon({"dia_semana"}),
                       "calculado", EstadoCon({"hora"}), "calculado">>
           /\ tab6.estado = EstadoCon({"s3_size", "local_size"})
           /\ metricas.tasa_exito = NA <=> "status" \notin columnas

\* the status values of the model that contain "success" in any case
ConSuccess == {"Success", "SUCCESS", "Upload success"}

\* C18: the success rate is 100 * (records of the view whose status contains
\* "success" in any case) / (records of the view) when the view is not empty
\* and the file has a status column, and "N/A" otherwise; it lies between 0
\* and 100.
C18_SuccessRate ==
    error = "" =>
        LET exitosos == Cardinality({i \in DOMAIN df_filtrado :
                                        df_filtrado[i].status \in ConSuccess})
            tasa == metricas.tasa_exito
        IN  IF "status" \in columnas /\ df_filtrado # <<>>
            THEN /\ tasa.tipo = "num" /\ tasa.den > 0
                 /\ tasa.num * Len(df_filtrado) = 100 * exitosos * tasa.den
                 /\ 0 <= tasa.num /\ tasa.num <= 100 * tasa.den
            ELSE tasa = NA

\* a view of an upper-case success and a near miss: the rate is 50
C18_Witness ==
    /\ error = "" /\ "status" \in columnas
    /\ {df_filtrado[i].status : i \in DOMAIN df_filtrado} = {"SUCCESS", "Succes"}
    /\ metricas.tasa_exito.tipo = "num"
    /\ metricas.tasa_exito.num = 50 * metricas.tasa_exito.den

-----------------------------------------------------------------------------
(* The tab2 trend analysis on aggregates by date and category *)

MaxFechasTend == 9

\* three categories on 7 to MaxFechasTend days: gt has records every day (1 or
\* 2 on the first and on the last day), sv on the first ks days (2 on the
\* first one), hn on the last j days
FamiliaTendencias ==
    {MatrizDe(OrdenPaises,
              [k \in 1..(3 * n) |->
                  LET d == ((k - 1) \div 3) + 1
                      c == ((k - 1) % 3) + 1
                  IN  IF c = 1 THEN (IF d = 1 THEN a[1] ELSE IF d = n THEN a[2] ELSE 1)
                      ELSE IF c = 2 THEN (IF d > n - j THEN 1 ELSE 0)
                      ELSE IF d > ks THEN 0 ELSE IF d = 1 THEN 2 ELSE 1],
              n) :
        n \in 7..MaxFechasTend, a \in {1, 2} \X {1, 2}, ks \in 0..5, j \in {0, 3, 4}}

InitTendencias ==
    /\ SinPasada
    /\ registros_pais = <<>>
    /\ registros_dia = <<>>
    /\ registros_por_fecha = <<>>
    /\ registros_dia_completo = <<>>
    /\ tamanos = SinTamanos
    /\ tab1 = Tab1SinDatos
    /\ tab2 = Tab2Tendencias(<<>>)
    /\ tab4 = Tab4Analisis(<<>>)
    /\ registros_hora = <<>>
    /\ tab5 = Tab5Sin("sin_datos")
    /\ tab6 = Tab6DeVista(<<>>, SinTamanos)
    /\ matriz_pais_fecha \in FamiliaTendencias
    /\ correlaciones = SinCorrelaciones("sin_datos")
    /\ pc = "pendiente"

CalculaTendencias ==
    /\ pc = "pendiente"
    /\ tab2' = Tab2Tendencias(matriz_pais_fecha)
    /\ pc' = "hecho"
    /\ UNCHANGED <<varsPasada, registros_dia, registros_por_fecha, registros_pais,
                   registros_dia_completo, tamanos, tab1, tab4,
                   registros_hora, tab5, tab6,
                   matriz_pais_fecha, correlaciones>>

NextTendencias == CalculaTendencias

SpecTendencias == InitTendencias /\ [][NextTendencias]_vars

-----------------------------------------------------------------------------
(* Properties of the trend analysis *)

\* the daily series of a category: its counts on the dates where it has records
PuntosDe(c) == SelectSeq(Serie(c), LAMBDA v : v > 0)

\* the entries of the trend table for a category
EntradasDeTendencia(c) ==
    {k \in DOMAIN tab2.tendencias_pais : tab2.tendencias_pais[k].pais = Upper(c)}

\* v is 100 * (mean of the last third - mean of the first third) / mean of the
\* first third of the points x; a third is Len(x) \div 3 points, at least 1
EsCambioDeTercios(v, x) ==
    LET k == IF Len(x) \div 3 >= 1 THEN Len(x) \div 3 ELSE 1
        primero == SumSeq(SubSeq(x, 1, k))
        ultimo == SumSeq(SubSeq(x, Len(x) - k + 1, Len(x)))
    IN  v.tipo = "num" /\ v.num * primero = (ultimo - primero) * 100 * v.den

\* C15 (as stated): the segment trend is computed for a category exactly when
\* its daily series has at least 4 points, and a category with fewer than 4
\* points yields an "insufficient data" result.
C15_Original ==
    Hecho =>
        \A c \in CategoriasDeMatriz :
            /\ Len(PuntosDe(c)) >= 4 <=>
                   \E k \in EntradasDeTendencia(c) :
                       tab2.tendencias_pais[k].tendencia.tipo = "num"
            /\ Len(PuntosDe(c)) < 4 =>
                   \E k \in EntradasDeTendencia(c) :
                       tab2.tendencias_pais[k].tendencia = NA

\* C15 (amended): the segment trend is computed for a category exactly when
\* the view has more than 7 distinct dates and the daily series of the
\* category has at least 4 points; it compares the mean of the first third of
\* the points with the mean of the last third. Every other category is left
\* out of the trend table, with no result of its own.
C15_SegmentTrend ==
    Hecho =>
        /\ tab2.estado = "calculado" <=> Cardinality(FechasDeMatriz) > 7
        /\ \A c \in CategoriasDeMatriz :
               IF Cardinality(FechasDeMatriz) > 7 /\ Len(PuntosDe(c)) >= 4
               THEN /\ Cardinality(EntradasDeTendencia(c)) = 1
                    /\ \A k \in EntradasDeTendencia(c) :
                           /\ EsCambioDeTercios(tab2.tendencias_pais[k].tendencia,
                                                PuntosDe(c))
                           /\ tab2.tendencias_pais[k].puntos = Len(PuntosDe(c))
               ELSE EntradasDeTendencia(c) = {}
        /\ \A k \in DOMAIN tab2.tendencias_pais :
               \E c \in CategoriasDeMatriz : k \in EntradasDeTendencia(c)

\* a category with a falling trend in the table and a category with 3 points
\* left out of it
C15_Witness ==
    /\ Hecho
    /\ tab2.estado = "calculado"
    /\ \E k \in DOMAIN tab2.tendencias_pais : tab2.tendencias_pais[k].tendencia.num < 0
    /\ \E c \in CategoriasDeMatriz :
           Len(PuntosDe(c)) = 3 /\ EntradasDeTendencia(c) = {}

=============================================================================
